---- MODULE Spec2Model ----
(***************************************************************************)
(* Model of pkg/deployment/utils/apply_utils.go: the ApplyUtil run state,  *)
(* the per-object apply ladder (ApplyObject and its retry functions), the  *)
(* readiness waiter, the replace loop and the deployment scheduler         *)
(* (ApplyDeployments / applyDeploymentItem).                               *)
(*                                                                         *)
(* The cluster gateway (a.k), the remote cache (a.ru), the conflict        *)
(* resolver and the object validator are external: every call of them is a *)
(* nondeterministic choice over the results their interface allows.        *)
(* A step of a process is one gateway call together with the bookkeeping   *)
(* the code does on its result up to the end of the next mutex region.     *)
(***************************************************************************)
EXTENDS Integers, Sequences, FiniteSets, Bags, TLC

\* ------------------------------------------------------------------ bounds
\* Number of items of the wide deployment (one more than the semaphore has permits).
NWide == 9
\* Polls after which a readiness wait must reach a verdict.
MaxPolls == 2
\* Iterations after which the replace loop's Update no longer conflicts.
MaxReplaceIters == 2
\* Lost-ownership records the conflict resolver returns at most.
MaxLost == 1
\* Validation errors the object validator reports at most.
MaxValErrors == 2

\* ------------------------------------------------------------------ objects
Nil == [nil |-> TRUE]

CRDGroup == "apiextensions.k8s.io"
CRDKind == "CustomResourceDefinition"

\* metadata.resourceVersion of a desired object, of a remote-cache object, of a
\* gateway result.
NoRV == "none"
RemoteRV == "remote"
ServerRV == "server"

HookPhases ==
  {"pre-deploy-initial", "pre-deploy-upgrade", "pre-deploy",
   "post-deploy-initial", "post-deploy-upgrade", "post-deploy"}

\* A desired object: its reference fields, resourceVersion, whether it went
\* through FixObjectForPatch, whether the conflict resolver stripped fields
\* from it, its content, and the annotations the orchestrator reads.
Obj(g, k, n, ph, pol, w) ==
  [group |-> g, kind |-> k, name |-> n, rv |-> NoRV, fixedForPatch |-> FALSE,
   resolved |-> FALSE, spec |-> "desired", phases |-> ph, policy |-> pol, waitAnn |-> w]

GetK8sRef(o) == [group |-> o.group, kind |-> o.kind, name |-> o.name]

ObjCRD == Obj(CRDGroup, CRDKind, "foos", {}, "none", FALSE)
ObjCR == Obj("example.com", "Foo", "foo1", {}, "none", FALSE)
ObjDep == Obj("apps", "Deployment", "d1", {}, "none", TRUE)
ObjSvc == Obj("core", "Service", "s1", {}, "none", FALSE)
HookPreInit == Obj("batch", "Job", "pre-init", {"pre-deploy-initial"}, "none", FALSE)
HookPreUpg == Obj("batch", "Job", "pre-upg", {"pre-deploy-upgrade"}, "before-hook-creation", FALSE)
HookPre == Obj("batch", "Job", "pre", {"pre-deploy"}, "none", FALSE)
HookPostInit == Obj("batch", "Job", "post-init", {"post-deploy-initial"}, "none", FALSE)
HookPostUpg == Obj("batch", "Job", "post-upg", {"post-deploy-upgrade"}, "before-hook-creation", FALSE)
HookPost == Obj("batch", "Job", "post", {"post-deploy"}, "before-hook-creation", FALSE)

RefOld == [group |-> "core", kind |-> "ConfigMap", name |-> "old"]

\* ------------------------------------------------------------------ configuration
\* A deployment item: DeleteObjects directives (each expanded by GetGVKs to one
\* reference), Objects, the two barrier flags, the two wait-readiness flags and
\* the value of CheckInclusionForDeploy().
Item(dels, objs, cfgBarrier, barrier, wait, incl) ==
  [DeleteObjects |-> dels, Objects |-> objs, ConfigBarrier |-> cfgBarrier,
   Barrier |-> barrier, WaitReadiness |-> wait, included |-> incl]

EmptyItem(b) == Item(<< >>, << >>, b, FALSE, FALSE, TRUE)

\* The wide deployments: NWide items without objects, none or the last but
\* one of them a barrier; they exercise the semaphore.
WideDeployments ==
  { [i \in 1..NWide |-> EmptyItem(i = b)] : b \in {0, NWide - 1} }

\* Three small items, the first two under every placement of barriers, the
\* last one included or not.
BarrierDeployments ==
  { << Item(<< RefOld >>, << >>, b1, FALSE, FALSE, TRUE),
       Item(<< >>, << ObjSvc >>, FALSE, b2, FALSE, TRUE),
       Item(<< RefOld >>, << >>, FALSE, FALSE, FALSE, i3) >> :
      b1 \in BOOLEAN, b2 \in BOOLEAN, i3 \in BOOLEAN }

\* An item with a delete, hooks of every phase and a regular object.
HookDeployments ==
  { << Item(<< RefOld >>, << HookPreInit, HookPreUpg, ObjDep, HookPostInit, HookPostUpg >>,
            FALSE, FALSE, FALSE, TRUE) >> }

\* An item with a regular object that waits for readiness and a hook that is
\* deleted before it is created.
ReplaceDeployments ==
  { << Item(<< >>, << ObjDep, HookPostUpg >>, FALSE, FALSE, FALSE, TRUE) >> }

\* Two items without barrier, the first with two regular objects.
AbortDeployments ==
  { << Item(<< >>, << ObjDep, ObjCR >>, FALSE, FALSE, FALSE, TRUE),
       Item(<< RefOld >>, << HookPre >>, FALSE, FALSE, FALSE, TRUE) >> }

Options(fa, roe, froe, dry, abort, timeout, nowait) ==
  [ForceApply |-> fa, ReplaceOnError |-> roe, ForceReplaceOnError |-> froe,
   DryRun |-> dry, AbortOnError |-> abort, WaitObjectTimeout |-> timeout,
   NoWait |-> nowait]

PlainOptions == Options(FALSE, FALSE, FALSE, FALSE, FALSE, 0, TRUE)

\* Every combination of the options the object operations read.
AllOptions ==
  { Options(fa, roe, froe, dry, abort, t, FALSE) :
      fa \in BOOLEAN, roe \in BOOLEAN, froe \in BOOLEAN, dry \in BOOLEAN,
      abort \in BOOLEAN, t \in {0, 1} }

\* Contents of the remote cache: the references it holds an object for.
RemoteAll ==
  {GetK8sRef(ObjDep), GetK8sRef(ObjSvc), GetK8sRef(ObjCRD), GetK8sRef(ObjCR),
   GetK8sRef(HookPreUpg), GetK8sRef(HookPostUpg), GetK8sRef(HookPost)}

\* A run: the deployment items, the options and the remote cache.
Scenario(d, o, r) == [deployments |-> d, options |-> o, ru |-> r]

DeployScenarios ==
  { Scenario(d, PlainOptions, {}) : d \in WideDeployments }
  \cup { Scenario(d, [PlainOptions EXCEPT !.AbortOnError = a], {}) :
           d \in BarrierDeployments, a \in BOOLEAN }
  \cup { Scenario(d, [PlainOptions EXCEPT !.NoWait = FALSE], {}) : d \in HookDeployments }
  \cup { Scenario(d, PlainOptions, RemoteAll) : d \in HookDeployments }
  \cup { Scenario(d, Options(FALSE, TRUE, TRUE, dry, TRUE, 1, FALSE), RemoteAll) :
           d \in ReplaceDeployments, dry \in BOOLEAN }
  \cup { Scenario(d, [PlainOptions EXCEPT !.AbortOnError = a], {}) :
           d \in AbortDeployments, a \in BOOLEAN }

\* Processes: worker p applies item p of a deployment run; in a run of direct
\* API calls the processes of Clients call the exported operations.
Procs == 1..NWide
Clients == {1, 2}

VARIABLES
  options, deployments, ru,            \* a.o, a.deployments, a.ru (fixed per run)
  opObjects,                           \* the objects the clients pass to the operations (fixed per run)
  AppliedObjects, appliedHookObjects,  \* maps ref -> object
  deletedObjects, deletedHookObjects,  \* sets of refs
  abortSignal, deployedNewCRD,
  dewErrors, dewWarnings,              \* the DeploymentErrorsAndWarnings sink: bags of records
  dewApiWarnings,                      \* ... and whether it holds an API warning
  sched, sem, wg,                      \* ApplyDeployments: loop position, permits held, WaitGroup counter
  pc, loc, idx,                        \* per process: position, locals of the running operation, loop index
  calls,                               \* per process: gateway calls of the running operation
  errs,                                \* per process: errors the running operation recorded
  hist,                                \* per process: operations the item worker started, in order
  rediscoverCalls, crdPatched,         \* counters of RediscoverResources calls and successful CRD patches
  lateEntry                            \* the workers that entered applyDeploymentItem with abortSignal set

cfgVars == << options, deployments, ru, opObjects >>
stateVars == << AppliedObjects, appliedHookObjects, deletedObjects, deletedHookObjects,
                abortSignal, deployedNewCRD >>
dewVars == << dewErrors, dewWarnings, dewApiWarnings >>
schedVars == << sched, sem, wg >>
procVars == << pc, loc, idx, calls, errs, hist >>
ghostVars == << rediscoverCalls, crdPatched, lateEntry >>
vars == << cfgVars, stateVars, dewVars, schedVars, procVars, ghostVars >>

EmptyMap == [k \in {} |-> Nil]

\* Locals of an object operation.
NoLoc ==
  [x |-> Nil, hook |-> FALSE, replaced |-> FALSE, remoteObject |-> Nil,
   usesDummyName |-> FALSE, ref |-> Nil, r |-> Nil, err |-> Nil, warn |-> FALSE,
   firstVersion |-> Nil, op |-> "none",
   ret |-> "none", n |-> 0, result |-> "none"]

\* NewApplyUtil
NewApplyUtil ==
  /\ AppliedObjects = EmptyMap
  /\ appliedHookObjects = EmptyMap
  /\ deletedObjects = {}
  /\ deletedHookObjects = {}
  /\ abortSignal = FALSE
  /\ deployedNewCRD = TRUE
  /\ dewErrors = EmptyBag
  /\ dewWarnings = EmptyBag
  /\ dewApiWarnings = FALSE
  /\ rediscoverCalls = 0
  /\ crdPatched = 0
  /\ lateEntry = {}

Init ==
  /\ \E sc \in DeployScenarios :
       /\ options = sc.options
       /\ deployments = sc.deployments
       /\ ru = sc.ru
  /\ opObjects = {}
  /\ NewApplyUtil
  /\ sched = [pc |-> "loop", i |-> 1]
  /\ sem = 0
  /\ wg = 0
  /\ pc = [p \in Procs |-> "none"]
  /\ loc = [p \in Procs |-> NoLoc]
  /\ idx = [p \in Procs |-> 0]
  /\ calls = [p \in Procs |-> << >>]
  /\ errs = [p \in Procs |-> 0]
  /\ hist = [p \in Procs |-> << >>]

\* ------------------------------------------------------------------ collaborators
\* a.ru.GetRemoteObject: the cached remote object of a reference, or nil.
GetRemoteObject(ref) ==
  IF ref \in ru
  THEN [group |-> ref.group, kind |-> ref.kind, name |-> ref.name, rv |-> RemoteRV,
        fixedForPatch |-> FALSE, resolved |-> FALSE, spec |-> "remote", phases |-> {},
        policy |-> "none", waitAnn |-> FALSE]
  ELSE Nil

\* a.k.FixObjectForPatch: the normalised object.
FixObjectForPatch(x) == [x EXCEPT !.fixedForPatch = TRUE]

\* utils.RandomString(8), one value of it.
RandomString == "k3x9q2mz"
DummyName(name) == name \o "-" \o RandomString

\* Results of the gateway calls: "ok" or the kind of the error.
PatchOutcomes == {"ok", "NoMatch", "Conflict", "InternalError", "Other"}
\* The ladder does not look at the kind of an error of its later calls.
RepatchOutcomes == {"ok", "NoMatch", "Other"}
UpdateOutcomes == {"ok", "Conflict", "Other"}
LadderUpdateOutcomes == {"ok", "Other"}
DeleteOutcomes == {"ok", "NotFound", "Other"}
GetOutcomes == {"ok", "NotFound", "Other"}
RediscoverOutcomes == {"ok", "InternalError", "Other"}

\* An error value: its kind and the call that returned it.
Err(kind, from) == [kind |-> kind, from |-> from]
IsNoMatchError(err) == err # Nil /\ err.kind = "NoMatch"
IsConflict(err) == err # Nil /\ err.kind = "Conflict"
IsInternalError(err) == err # Nil /\ err.kind = "InternalError"
IsNotFound(err) == err # Nil /\ err.kind = "NotFound"

\* What PatchObject / UpdateObject return for object x under an outcome.
GatewayResult(x, outcome, from) ==
  IF outcome = "ok"
  THEN [r |-> [x EXCEPT !.rv = ServerRV], err |-> Nil]
  ELSE [r |-> Nil, err |-> Err(outcome, from)]

\* One entry of a process's log of gateway calls.
GwCall(op, arg, dry, force, res) ==
  [op |-> op, arg |-> arg, dry |-> dry, force |-> force, res |-> res]

MutatingOps == {"Patch", "Update", "Delete"}

\* ------------------------------------------------------------------ run state
\* The shared run state and the sink as one value, so that the functions of
\* the orchestrator compose.
Cur ==
  [AppliedObjects |-> AppliedObjects, appliedHookObjects |-> appliedHookObjects,
   deletedObjects |-> deletedObjects, deletedHookObjects |-> deletedHookObjects,
   abortSignal |-> abortSignal, dewErrors |-> dewErrors,
   dewWarnings |-> dewWarnings, dewApiWarnings |-> dewApiWarnings]

Commit(S) ==
  /\ AppliedObjects' = S.AppliedObjects
  /\ appliedHookObjects' = S.appliedHookObjects
  /\ deletedObjects' = S.deletedObjects
  /\ deletedHookObjects' = S.deletedHookObjects
  /\ abortSignal' = S.abortSignal
  /\ dewErrors' = S.dewErrors
  /\ dewWarnings' = S.dewWarnings
  /\ dewApiWarnings' = S.dewApiWarnings

MapPut(m, k, v) == (k :> v) @@ m

\* handleResult recording a hook's result in AppliedHookObjects only.
handleResultHookOnly(S, appliedObject, hook) ==
  LET ref == GetK8sRef(appliedObject) IN
  [S EXCEPT !.appliedHookObjects = IF hook THEN MapPut(@, ref, appliedObject) ELSE @,
            !.AppliedObjects = IF hook THEN @ ELSE MapPut(@, ref, appliedObject)]

\* handleResult
handleResult(S, appliedObject, hook) ==
  LET ref == GetK8sRef(appliedObject) IN
  [S EXCEPT !.appliedHookObjects = IF hook THEN MapPut(@, ref, appliedObject) ELSE @,
            !.AppliedObjects = MapPut(@, ref, appliedObject)]

\* handleApiWarnings: the gateway call returned warnings (warn) or none.
handleApiWarnings(S, ref, warn) ==
  [S EXCEPT !.dewApiWarnings = @ \/ warn]

\* HandleWarning / dew.AddWarning
HandleWarning(S, ref, warning) ==
  [S EXCEPT !.dewWarnings = @ (+) SetToBag({[ref |-> ref, warning |-> warning]})]

\* HandleError
HandleError(S, ref, err) ==
  [S EXCEPT !.abortSignal = IF options.AbortOnError THEN TRUE ELSE @,
            !.dewErrors = @ (+) SetToBag({[ref |-> ref, err |-> err]})]

\* HadError
HadError(S, ref) == \E e \in BagToSet(S.dewErrors) : e.ref = ref

\* DeleteObject under the outcome and warnings of DeleteSingleObject: the new
\* state, the gateway call and the returned boolean.
DeleteObject(S, ref, hook, outcome, warn) ==
  LET call == GwCall("Delete", ref, options.DryRun, FALSE, outcome)
      S1 == handleApiWarnings(S, ref, warn)
  IN IF outcome # "ok"
     THEN [S |-> IF outcome # "NotFound" THEN HandleError(S1, ref, Err(outcome, "delete")) ELSE S1,
           calls |-> << call >>, ok |-> FALSE]
     ELSE [S |-> IF hook
                 THEN [S1 EXCEPT !.deletedHookObjects = @ \cup {ref}]
                 ELSE [S1 EXCEPT !.deletedObjects = @ \cup {ref}],
           calls |-> << call >>, ok |-> TRUE]

\* ------------------------------------------------------------------ apply ladder
\* The functions of the ladder take the run state S and the results of the
\* gateway calls they make, and return the new run state, the gateway calls
\* made and where the process continues ("ret": the operation returns).

\* retryApplyForceReplace, lines 125-138: up to the return of DeleteObject.
retryApplyForceReplace(S, x, hook, applyError, del, dw) ==
  LET ref == GetK8sRef(x) IN
  IF ~options.ForceReplaceOnError
  THEN [S |-> HandleError(S, ref, applyError), calls |-> << >>, next |-> "ret"]
  ELSE LET d == DeleteObject(S, ref, hook, del, dw)
       IN [S |-> d.S, calls |-> d.calls, next |-> IF d.ok THEN "frpatch" ELSE "ret"]

\* retryApplyForceReplace, lines 140-153: the re-patch after the delete.
retryApplyForceReplacePatch(S, x, hook, pat, pw) ==
  LET ref == GetK8sRef(x) IN
  IF ~options.DryRun
  THEN LET g == GatewayResult(x, pat, "frpatch")
           call == GwCall("Patch", x, options.DryRun, FALSE, pat)
           S1 == handleApiWarnings(S, ref, pw)
       IN [S |-> IF g.err # Nil THEN HandleError(S1, ref, g.err)
                 ELSE handleResult(S1, g.r, hook),
           calls |-> << call >>, next |-> "ret"]
  ELSE [S |-> handleResult(S, x, hook), calls |-> << >>, next |-> "ret"]

\* retryApplyWithReplace
retryApplyWithReplace(S, x, hook, remoteObject, applyError, upd, uw, del, dw) ==
  LET ref == GetK8sRef(x) IN
  IF ~options.ReplaceOnError \/ remoteObject = Nil
  THEN [S |-> HandleError(S, ref, applyError), calls |-> << >>, next |-> "ret"]
  ELSE LET rv == remoteObject.rv
           x2 == [x EXCEPT !.rv = rv]
           \* line 175 hands x, not x2, to UpdateObject
           g == GatewayResult(x, upd, "update")
           call == GwCall("Update", x, options.DryRun, FALSE, upd)
           S1 == handleApiWarnings(S, ref, uw)
       IN IF g.err # Nil
          THEN LET f == retryApplyForceReplace(S1, x, hook, g.err, del, dw)
               IN [S |-> f.S, calls |-> << call >> \o f.calls, next |-> f.next]
          ELSE [S |-> handleResult(S1, g.r, hook), calls |-> << call >>, next |-> "ret"]

\* diff.ResolveFieldManagerConflicts: an error, or the object without the
\* conflicting fields and the lost-ownership records 1..lost.
ResolverOutcomes == {[err |-> e, lost |-> n] : e \in BOOLEAN, n \in 0..MaxLost}

RECURSIVE AddLostOwnershipWarnings(_, _, _)
AddLostOwnershipWarnings(S, ref, n) ==
  IF n = 0 THEN S
  ELSE HandleWarning(AddLostOwnershipWarnings(S, ref, n - 1), ref, [lost |-> n])

\* retryApplyWithConflicts re-patching without ForceApply.
retryApplyWithConflictsNoForce(S, x, hook, remoteObject, applyError, res, pat, pw) ==
  LET ref == GetK8sRef(x) IN
  IF remoteObject = Nil
  THEN [S |-> HandleError(S, ref, applyError), calls |-> << >>, next |-> "ret"]
  ELSE IF ~options.ForceApply /\ res.err
  THEN [S |-> HandleError(S, ref, Err("Other", "resolve")), calls |-> << >>, next |-> "ret"]
  ELSE LET S1 == IF ~options.ForceApply
                 THEN AddLostOwnershipWarnings(S, ref, res.lost) ELSE S
           x2 == IF ~options.ForceApply THEN [x EXCEPT !.resolved = TRUE] ELSE x
           g == GatewayResult(x2, pat, "conflictpatch")
           call == GwCall("Patch", x2, options.DryRun, FALSE, pat)
           S2 == handleApiWarnings(S1, ref, pw)
       IN [S |-> IF g.err # Nil THEN HandleError(S2, ref, g.err)
                 ELSE handleResult(S2, g.r, hook),
           calls |-> << call >>, next |-> "ret"]

\* retryApplyWithConflicts (a Conflict of the gateway is a *StatusError)
retryApplyWithConflicts(S, x, hook, remoteObject, applyError, res, pat, pw) ==
  LET ref == GetK8sRef(x) IN
  IF remoteObject = Nil
  THEN [S |-> HandleError(S, ref, applyError), calls |-> << >>, next |-> "ret"]
  ELSE IF ~options.ForceApply /\ res.err
  THEN [S |-> HandleError(S, ref, Err("Other", "resolve")), calls |-> << >>, next |-> "ret"]
  ELSE LET S1 == IF ~options.ForceApply
                 THEN AddLostOwnershipWarnings(S, ref, res.lost) ELSE S
           x2 == IF ~options.ForceApply THEN [x EXCEPT !.resolved = TRUE] ELSE x
           g == GatewayResult(x2, pat, "conflictpatch")
           call == GwCall("Patch", x2, options.DryRun, TRUE, pat)
           S2 == handleApiWarnings(S1, ref, pw)
       IN [S |-> IF g.err # Nil THEN HandleError(S2, ref, g.err)
                 ELSE handleResult(S2, g.r, hook),
           calls |-> << call >>, next |-> "ret"]

IsCRD(ref) == ref.group = CRDGroup /\ ref.kind = CRDKind

\* handleNewCRDs leaving the latch armed when it rediscovers.
handleNewCRDsKeepLatch(x, err, latch, red) ==
  IF IsNoMatchError(err)
  THEN IF latch
       THEN IF red # "ok"
            THEN [retry |-> FALSE, err |-> Err(red, "rediscover"), latch |-> latch,
                  rediscovered |-> TRUE]
            ELSE [retry |-> TRUE, err |-> Nil, latch |-> latch, rediscovered |-> TRUE]
       ELSE [retry |-> FALSE, err |-> err, latch |-> latch, rediscovered |-> FALSE]
  ELSE IF err = Nil
  THEN IF IsCRD(GetK8sRef(x))
       THEN [retry |-> TRUE, err |-> Nil, latch |-> TRUE, rediscovered |-> FALSE]
       ELSE [retry |-> FALSE, err |-> Nil, latch |-> latch, rediscovered |-> FALSE]
  ELSE [retry |-> FALSE, err |-> err, latch |-> latch, rediscovered |-> FALSE]

\* handleNewCRDs asking for a retry after the successful patch of any object.
handleNewCRDsRetryAll(x, err, latch, red) ==
  IF IsNoMatchError(err)
  THEN IF latch
       THEN IF red # "ok"
            THEN [retry |-> FALSE, err |-> Err(red, "rediscover"), latch |-> FALSE,
                  rediscovered |-> TRUE]
            ELSE [retry |-> TRUE, err |-> Nil, latch |-> FALSE, rediscovered |-> TRUE]
       ELSE [retry |-> FALSE, err |-> err, latch |-> latch, rediscovered |-> FALSE]
  ELSE IF err = Nil
  THEN [retry |-> TRUE, err |-> Nil, latch |-> IsCRD(GetK8sRef(x)) \/ latch,
        rediscovered |-> FALSE]
  ELSE [retry |-> FALSE, err |-> err, latch |-> latch, rediscovered |-> FALSE]

\* handleNewCRDs resetting the latch after the successful patch of an object
\* that is no CustomResourceDefinition.
handleNewCRDsResetLatch(x, err, latch, red) ==
  IF IsNoMatchError(err)
  THEN IF latch
       THEN IF red # "ok"
            THEN [retry |-> FALSE, err |-> Err(red, "rediscover"), latch |-> FALSE,
                  rediscovered |-> TRUE]
            ELSE [retry |-> TRUE, err |-> Nil, latch |-> FALSE, rediscovered |-> TRUE]
       ELSE [retry |-> FALSE, err |-> err, latch |-> latch, rediscovered |-> FALSE]
  ELSE IF err = Nil
  THEN IF IsCRD(GetK8sRef(x))
       THEN [retry |-> TRUE, err |-> Nil, latch |-> TRUE, rediscovered |-> FALSE]
       ELSE [retry |-> FALSE, err |-> Nil, latch |-> FALSE, rediscovered |-> FALSE]
  ELSE [retry |-> FALSE, err |-> err, latch |-> latch, rediscovered |-> FALSE]

\* handleNewCRDs under the outcome red of RediscoverResources: the (retry, err)
\* it returns, the latch it leaves and whether it called RediscoverResources.
handleNewCRDs(x, err, latch, red) ==
  IF IsNoMatchError(err)
  THEN IF latch
       THEN IF red # "ok"
            THEN [retry |-> FALSE, err |-> Err(red, "rediscover"), latch |-> FALSE,
                  rediscovered |-> TRUE]
            ELSE [retry |-> TRUE, err |-> Nil, latch |-> FALSE, rediscovered |-> TRUE]
       ELSE [retry |-> FALSE, err |-> err, latch |-> latch, rediscovered |-> FALSE]
  ELSE IF err = Nil
  THEN IF IsCRD(GetK8sRef(x))
       THEN [retry |-> TRUE, err |-> Nil, latch |-> TRUE, rediscovered |-> FALSE]
       ELSE [retry |-> FALSE, err |-> Nil, latch |-> latch, rediscovered |-> FALSE]
  ELSE [retry |-> FALSE, err |-> err, latch |-> latch, rediscovered |-> FALSE]

\* ApplyObject, lines 228-244: the locals before the first patch.
ApplyObjectBegin(x, replaced, hook, ret) ==
  LET ref == GetK8sRef(x)
      x1 == FixObjectForPatch(x)
      remoteObject == GetRemoteObject(ref)
      usesDummyName == options.DryRun /\ replaced /\ remoteObject # Nil
  IN [NoLoc EXCEPT !.x = IF usesDummyName THEN [x1 EXCEPT !.name = DummyName(x1.name)] ELSE x1,
                   !.ref = ref, !.hook = hook, !.replaced = replaced,
                   !.remoteObject = remoteObject, !.usesDummyName = usesDummyName,
                   !.ret = ret, !.op = "apply"]

\* r.ReplaceKeys / r.ReplaceValues on the fields of the model's objects.
ReplaceValues(r, tmpName, realName) ==
  [r EXCEPT !.name = IF @ = tmpName THEN realName ELSE @]

\* ApplyObject, lines 254-271: the result of the (possibly retried) patch is
\* renamed back, recorded or handed to the retry functions.
ApplyObjectFinish(S, L, res, pat, pw, upd, uw, del, dw) ==
  LET r == IF L.r # Nil /\ L.usesDummyName
           THEN ReplaceValues(L.r, L.r.name, L.remoteObject.name) ELSE L.r
      S1 == handleApiWarnings(S, L.ref, L.warn)
  IN IF L.err = Nil
     THEN [S |-> handleResult(S1, r, L.hook), calls |-> << >>, next |-> "ret"]
     ELSE IF IsNoMatchError(L.err)
     THEN [S |-> HandleError(S1, L.ref, L.err), calls |-> << >>, next |-> "ret"]
     ELSE IF IsConflict(L.err)
     THEN retryApplyWithConflicts(S1, L.x, L.hook, L.remoteObject, L.err, res, pat, pw)
     ELSE IF IsInternalError(L.err)
     THEN [S |-> HandleError(S1, L.ref, L.err), calls |-> << >>, next |-> "ret"]
     ELSE retryApplyWithReplace(S1, L.x, L.hook, L.remoteObject, L.err, upd, uw, del, dw)

\* ------------------------------------------------------------------ readiness
\* validation.ValidateObject: Ready and the number of Errors.
ValidationResults == {[Ready |-> rdy, Errors |-> n] : rdy \in BOOLEAN, n \in 0..MaxValErrors}

RECURSIVE AddValidationErrors(_, _, _)
AddValidationErrors(S, ref, n) ==
  IF n = 0 THEN S
  ELSE HandleError(AddValidationErrors(S, ref, n - 1), ref, Err("Validation", n))

\* WaitReadiness testing the validation's Errors before its Ready.
WaitReadinessPollErrorsFirst(S, ref, timeout, get, gw, v, late) ==
  LET call == GwCall("Get", ref, FALSE, FALSE, get)
      vcall == GwCall("Validate", ref, FALSE, FALSE, v)
      S1 == handleApiWarnings(S, ref, gw)
  IN IF get = "NotFound"
     THEN [S |-> HandleError(S1, ref, Err("Disappeared", "wait")), calls |-> << call >>,
           verdict |-> "false"]
     ELSE IF get # "ok"
     THEN [S |-> HandleError(S1, ref, Err(get, "get")), calls |-> << call >>, verdict |-> "false"]
     ELSE IF v.Errors # 0
     THEN [S |-> AddValidationErrors(S1, ref, v.Errors), calls |-> << call, vcall >>,
           verdict |-> "false"]
     ELSE IF v.Ready
     THEN [S |-> S1, calls |-> << call, vcall >>, verdict |-> "true"]
     ELSE IF timeout > 0 /\ late
     THEN [S |-> HandleError(S1, ref, Err("Timeout", "wait")), calls |-> << call, vcall >>,
           verdict |-> "false"]
     ELSE [S |-> S1, calls |-> << call, vcall >>, verdict |-> "again"]

\* WaitReadiness, one iteration of its loop outside dry-run: the Get returned
\* get, the validator v, and late says whether the timeout has elapsed.
\* verdict: "true" / "false" (the value returned) or "again" (sleep and poll).
\* The log receives the Get and, when it was made, the call of ValidateObject.
WaitReadinessPoll(S, ref, timeout, get, gw, v, late) ==
  LET call == GwCall("Get", ref, FALSE, FALSE, get)
      vcall == GwCall("Validate", ref, FALSE, FALSE, v)
      S1 == handleApiWarnings(S, ref, gw)
  IN IF get = "NotFound"
     THEN [S |-> HandleError(S1, ref, Err("Disappeared", "wait")), calls |-> << call >>,
           verdict |-> "false"]
     ELSE IF get # "ok"
     THEN [S |-> HandleError(S1, ref, Err(get, "get")), calls |-> << call >>, verdict |-> "false"]
     ELSE IF v.Ready
     THEN [S |-> S1, calls |-> << call, vcall >>, verdict |-> "true"]
     ELSE IF v.Errors # 0
     THEN [S |-> AddValidationErrors(S1, ref, v.Errors), calls |-> << call, vcall >>,
           verdict |-> "false"]
     ELSE IF timeout > 0 /\ late
     THEN [S |-> HandleError(S1, ref, Err("Timeout", "wait")), calls |-> << call, vcall >>,
           verdict |-> "false"]
     ELSE [S |-> S1, calls |-> << call, vcall >>, verdict |-> "again"]

\* ------------------------------------------------------------------ deployment items
\* IsBarrier without the item's own Barrier flag.
IsBarrierConfigOnly(d) == d.ConfigBarrier

IsBarrier(d) == d.ConfigBarrier \/ d.Barrier

\* applyDeploymentItem, lines 373-383
ToDelete(d) == d.DeleteObjects

\* applyDeploymentItem, lines 387-392
InitialDeploy(d) ==
  \A i \in 1..Len(d.Objects) : GetRemoteObject(GetK8sRef(d.Objects[i])) = Nil

\* HooksUtil.GetHook(o) != nil
IsHook(obj) == obj.phases # {}

\* HooksUtil.DetermineHooks: the hooks of d of the given phases, in order.
DetermineHooks(d, phases) ==
  SelectSeq(d.Objects, LAMBDA obj : obj.phases \cap phases # {})

\* applyDeploymentItem, lines 394-400
ApplyObjectsOf(d) == SelectSeq(d.Objects, LAMBDA obj : ~IsHook(obj))

\* applyDeploymentItem, lines 402-410: preHooks stays nil in the else branch,
\* whose first assignment to postHooks is overwritten by the second.
PreHooks(d) ==
  IF InitialDeploy(d)
  THEN DetermineHooks(d, {"pre-deploy-initial", "pre-deploy"})
  ELSE << >>

PostHooks(d) ==
  IF InitialDeploy(d)
  THEN DetermineHooks(d, {"post-deploy-initial", "post-deploy"})
  ELSE DetermineHooks(d, {"post-deploy-upgrade", "post-deploy"})

\* PhaseNames with the pre-hooks ahead of the deletes.
PhaseNamesHooksFirst == << "pre", "del", "obj", "post" >>

\* The phases of applyDeploymentItem after the inclusion check, in the order
\* of the code: lines 420-427, 429, 436-455, 457.
PhaseNames == << "del", "pre", "obj", "post" >>

PhaseList(d, ph) ==
  CASE ph = "del" -> ToDelete(d)
    [] ph = "pre" -> PreHooks(d)
    [] ph = "obj" -> ApplyObjectsOf(d)
    [] ph = "post" -> PostHooks(d)

PhaseIndex(ph) == CHOOSE j \in 1..Len(PhaseNames) : PhaseNames[j] = ph

\* Where the worker continues from phase number j on: the first element of the
\* first non-empty phase, or the final status (line 459).
RECURSIVE From(_, _)
From(d, j) ==
  IF j > Len(PhaseNames) THEN [pc |-> "finish", idx |-> 0]
  ELSE IF Len(PhaseList(d, PhaseNames[j])) > 0 THEN [pc |-> PhaseNames[j], idx |-> 1]
  ELSE From(d, j + 1)

\* Where the worker continues after element k of phase ph.
After(d, ph, k) ==
  IF k < Len(PhaseList(d, ph)) THEN [pc |-> ph, idx |-> k + 1]
  ELSE From(d, PhaseIndex(ph) + 1)

\* Enter without the inclusion check.
EnterAlways(d) == From(d, 1)

\* applyDeploymentItem, line 414: the inclusion check.
Enter(d) == IF ~d.included THEN [pc |-> "skip", idx |-> 0] ELSE From(d, 1)

\* applyDeploymentItem, lines 451-452
WaitNeeded(d, obj) == ~options.NoWait /\ (d.WaitReadiness \/ obj.waitAnn)

\* What is left of the locals when an operation has returned.
Retired(L, result) ==
  [NoLoc EXCEPT !.ref = L.ref, !.hook = L.hook, !.ret = L.ret, !.op = L.op,
                !.result = result]

\* Where process p continues when its operation op ("apply", "wait", "delete",
\* "replace") with locals L returns.
AfterOp(p, L, op) ==
  IF L.ret = "client" THEN [pc |-> "idle", idx |-> idx[p]]
  ELSE IF L.ret = "obj" /\ op = "apply"
          /\ WaitNeeded(deployments[p], ApplyObjectsOf(deployments[p])[idx[p]])
  THEN [pc |-> "wait", idx |-> idx[p]]
  ELSE After(deployments[p], L.ret, idx[p])

\* Process p continues at `next` of its operation op, or returns from it with
\* `result`.
Continue(p, L, op, next, result) ==
  IF next # "ret"
  THEN /\ pc' = [pc EXCEPT ![p] = next]
       /\ loc' = [loc EXCEPT ![p] = L]
       /\ idx' = idx
  ELSE LET a == AfterOp(p, L, op)
       IN /\ pc' = [pc EXCEPT ![p] = a.pc]
          /\ idx' = [idx EXCEPT ![p] = a.idx]
          /\ loc' = [loc EXCEPT ![p] = Retired(L, result)]

Choices(cond, set, default) == IF cond THEN set ELSE {default}

\* A nil dereference in one goroutine ends the program.
Panicked == \E p \in Procs : pc[p] = "panic"

\* Errors the run state S holds more than the current one.
NewErrors(S) == BagCardinality(S.dewErrors) - BagCardinality(dewErrors)

\* The operation of p led to run state S with the gateway calls newCalls.
Log(p, S, newCalls) ==
  /\ calls' = [calls EXCEPT ![p] = @ \o newCalls]
  /\ errs' = [errs EXCEPT ![p] = @ + NewErrors(S)]

\* ------------------------------------------------------------------ ApplyObject
\* ApplyObject, lines 246-250: the first patch and handleNewCRDs.
ApplyFirstPatch(p) ==
  /\ ~Panicked
  /\ pc[p] = "patch1"
  /\ \E pat \in PatchOutcomes, pw \in BOOLEAN :
     \E red \in Choices(pat = "NoMatch" /\ deployedNewCRD, RediscoverOutcomes, "ok") :
       LET L == loc[p]
           g == GatewayResult(L.x, pat, "patch1")
           h == handleNewCRDs(g.r, g.err, deployedNewCRD, red)
       IN /\ deployedNewCRD' = h.latch
          /\ rediscoverCalls' = rediscoverCalls + (IF h.rediscovered THEN 1 ELSE 0)
          /\ crdPatched' = crdPatched + (IF pat = "ok" /\ IsCRD(GetK8sRef(g.r)) THEN 1 ELSE 0)
          /\ Log(p, Cur, << GwCall("Patch", L.x, options.DryRun, FALSE, pat) >>
                         \o (IF h.rediscovered
                             THEN << GwCall("Rediscover", Nil, FALSE, FALSE, red) >>
                             ELSE << >>))
          /\ pc' = [pc EXCEPT ![p] = IF h.retry THEN "patch2" ELSE "finishapply"]
          /\ loc' = [loc EXCEPT ![p] = [L EXCEPT !.r = g.r, !.err = h.err, !.warn = pw]]
  /\ UNCHANGED << cfgVars, AppliedObjects, appliedHookObjects, deletedObjects,
                  deletedHookObjects, abortSignal, dewVars, schedVars, idx, hist, lateEntry >>

\* ApplyObject, lines 251-253: the retried patch.
ApplyRetryPatch(p) ==
  /\ ~Panicked
  /\ pc[p] = "patch2"
  /\ \E pat \in PatchOutcomes, pw \in BOOLEAN :
       LET L == loc[p]
           g == GatewayResult(L.x, pat, "patch2")
       IN /\ crdPatched' = crdPatched + (IF pat = "ok" /\ IsCRD(GetK8sRef(g.r)) THEN 1 ELSE 0)
          /\ Log(p, Cur, << GwCall("Patch", L.x, options.DryRun, FALSE, pat) >>)
          /\ pc' = [pc EXCEPT ![p] = "finishapply"]
          /\ loc' = [loc EXCEPT ![p] = [L EXCEPT !.r = g.r, !.err = g.err, !.warn = pw]]
  /\ UNCHANGED << cfgVars, stateVars, dewVars, schedVars, idx, hist, rediscoverCalls, lateEntry >>

\* ApplyObject, lines 254-271, with retryApplyWithConflicts,
\* retryApplyWithReplace and retryApplyForceReplace up to its DeleteObject.
ApplyFinish(p) ==
  /\ ~Panicked
  /\ pc[p] = "finishapply"
  /\ LET L == loc[p]
         conflict == IsConflict(L.err) /\ L.remoteObject # Nil
         replace == /\ L.err # Nil
                    /\ ~IsNoMatchError(L.err) /\ ~IsConflict(L.err) /\ ~IsInternalError(L.err)
                    /\ options.ReplaceOnError /\ L.remoteObject # Nil
     IN \E res \in Choices(conflict /\ ~options.ForceApply, ResolverOutcomes,
                           [err |-> FALSE, lost |-> 0]) :
        \E pat \in Choices(conflict /\ ~res.err, RepatchOutcomes, "ok"),
           upd \in Choices(replace, LadderUpdateOutcomes, "ok") :
        \E pw \in Choices(conflict /\ ~res.err, BOOLEAN, FALSE),
           uw \in Choices(replace, BOOLEAN, FALSE),
           del \in Choices(replace /\ upd # "ok" /\ options.ForceReplaceOnError,
                           DeleteOutcomes, "ok") :
        \E dw \in Choices(replace /\ upd # "ok" /\ options.ForceReplaceOnError,
                          BOOLEAN, FALSE) :
          LET f == ApplyObjectFinish(Cur, L, res, pat, pw, upd, uw, del, dw)
          IN /\ Commit(f.S)
             /\ Log(p, f.S, f.calls)
             /\ crdPatched' = crdPatched
                  + (IF conflict /\ ~res.err /\ pat = "ok" /\ IsCRD(L.ref) THEN 1 ELSE 0)
             /\ Continue(p, L, "apply", f.next, "done")
  /\ UNCHANGED << cfgVars, deployedNewCRD, schedVars, hist, rediscoverCalls, lateEntry >>

\* retryApplyForceReplace, lines 140-153.
ForceReplaceFinish(p) ==
  /\ ~Panicked
  /\ pc[p] = "frpatch"
  /\ \E pat \in Choices(~options.DryRun, RepatchOutcomes, "ok"),
        pw \in Choices(~options.DryRun, BOOLEAN, FALSE) :
       LET L == loc[p]
           f == retryApplyForceReplacePatch(Cur, L.x, L.hook, pat, pw)
       IN /\ Commit(f.S)
          /\ Log(p, f.S, f.calls)
          /\ crdPatched' = crdPatched
               + (IF ~options.DryRun /\ pat = "ok" /\ IsCRD(L.ref) THEN 1 ELSE 0)
          /\ Continue(p, L, "apply", f.next, "done")
  /\ UNCHANGED << cfgVars, deployedNewCRD, schedVars, hist, rediscoverCalls, lateEntry >>

\* ------------------------------------------------------------------ WaitReadiness
\* WaitReadiness: the dry-run return, or one poll.
WaitReadiness(p) ==
  /\ ~Panicked
  /\ pc[p] = "wait"
  /\ LET first == loc[p].op # "wait" \/ loc[p].n = 0
         L == IF loc[p].op # "wait"
              THEN [NoLoc EXCEPT !.ref = loc[p].ref, !.ret = loc[p].ret, !.op = "wait"]
              ELSE loc[p]
         timeout == options.WaitObjectTimeout
     IN IF options.DryRun
        THEN /\ Commit(Cur)
             /\ calls' = [calls EXCEPT ![p] = << >>]
             /\ errs' = [errs EXCEPT ![p] = 0]
             /\ Continue(p, L, "wait", "ret", "true")
        ELSE \E get \in GetOutcomes, gw \in BOOLEAN :
             \E v \in Choices(get = "ok", ValidationResults, [Ready |-> TRUE, Errors |-> 0]) :
             \E late \in Choices(get = "ok" /\ ~v.Ready /\ v.Errors = 0 /\ timeout > 0,
                                 BOOLEAN, FALSE) :
               LET w == WaitReadinessPoll(Cur, L.ref, timeout, get, gw, v, late)
               IN /\ w.verdict = "again" => L.n + 1 < MaxPolls
                  /\ Commit(w.S)
                  /\ calls' = [calls EXCEPT ![p] = (IF first THEN << >> ELSE @) \o w.calls]
                  /\ errs' = [errs EXCEPT ![p] = (IF first THEN 0 ELSE @) + NewErrors(w.S)]
                  /\ IF w.verdict = "again"
                     THEN Continue(p, [L EXCEPT !.n = @ + 1], "wait", "wait", "none")
                     ELSE Continue(p, L, "wait", "ret", w.verdict)
  /\ hist' = [hist EXCEPT ![p] = IF (loc[p].op # "wait" \/ loc[p].n = 0) /\ loc[p].ret # "client"
                                  THEN Append(@, [ph |-> "wait", k |-> idx[p], name |-> loc[p].ref.name])
                                  ELSE @]
  /\ UNCHANGED << cfgVars, deployedNewCRD, schedVars, ghostVars >>

\* ------------------------------------------------------------------ applyDeploymentItem
\* Weight of the semaphore of ApplyDeployments.
SemWeight == 8

\* CanAcquire letting one worker too many in.
CanAcquireOffByOne(held) == held <= SemWeight

CanAcquire(held) == held < SemWeight

\* The worker goroutine of item p, lines 502-507 and 373-418: it acquires a
\* permit, enters applyDeploymentItem and reaches the inclusion check.
Acquire(p) ==
  /\ pc[p] = "acquire"
  /\ CanAcquire(sem)
  /\ sem' = sem + 1
  /\ LET a == Enter(deployments[p])
     IN /\ pc' = [pc EXCEPT ![p] = a.pc]
        /\ idx' = [idx EXCEPT ![p] = a.idx]
  /\ lateEntry' = IF abortSignal THEN lateEntry \cup {p} ELSE lateEntry
  /\ UNCHANGED << cfgVars, stateVars, dewVars, sched, wg, loc, calls, errs, hist,
                  rediscoverCalls, crdPatched >>

\* Release without the wg.Done.
ReleaseNoDone(p) ==
  /\ sem' = sem - 1
  /\ wg' = wg
  /\ pc' = [pc EXCEPT ![p] = "done"]
  /\ loc' = [loc EXCEPT ![p] = NoLoc]
  /\ calls' = [calls EXCEPT ![p] = << >>]
  /\ errs' = [errs EXCEPT ![p] = 0]

\* The goroutine's deferred sem.Release and wg.Done; the locals of
\* applyDeploymentItem are gone.
Release(p) ==
  /\ sem' = sem - 1
  /\ wg' = wg - 1
  /\ pc' = [pc EXCEPT ![p] = "done"]
  /\ loc' = [loc EXCEPT ![p] = NoLoc]
  /\ calls' = [calls EXCEPT ![p] = << >>]
  /\ errs' = [errs EXCEPT ![p] = 0]

\* applyDeploymentItem, lines 414-418: the item is skipped.
ItemSkipped(p) ==
  /\ pc[p] = "skip"
  /\ Release(p)
  /\ UNCHANGED << cfgVars, stateVars, dewVars, sched, idx, hist, ghostVars >>

\* applyDeploymentItem, lines 420-427: one DeleteObject of the delete loop.
ItemDelete(p) ==
  /\ pc[p] = "del"
  /\ \E del \in DeleteOutcomes, dw \in BOOLEAN :
       LET d == deployments[p]
           ref == ToDelete(d)[idx[p]]
           D == DeleteObject(Cur, ref, FALSE, del, dw)
           a == After(d, "del", idx[p])
       IN /\ Commit(D.S)
          /\ calls' = [calls EXCEPT ![p] = D.calls]
          /\ errs' = [errs EXCEPT ![p] = NewErrors(D.S)]
          /\ pc' = [pc EXCEPT ![p] = a.pc]
          /\ idx' = [idx EXCEPT ![p] = a.idx]
          /\ loc' = [loc EXCEPT ![p] = [NoLoc EXCEPT !.ref = ref, !.ret = "del", !.op = "delete",
                                                     !.result = IF D.ok THEN "true" ELSE "false"]]
  /\ hist' = [hist EXCEPT ![p] = Append(@, [ph |-> "del", k |-> idx[p],
                                             name |-> ToDelete(deployments[p])[idx[p]].name])]
  /\ UNCHANGED << cfgVars, deployedNewCRD, schedVars, ghostVars >>

\* HooksUtil.RunHooks: the hook at the head of the list was deleted by this worker.
HookDeleted(p) == loc[p].op = "delete" /\ loc[p].ret = pc[p]

\* HooksUtil.RunHooks: DeleteObject(ref, true) of a hook with deletion policy
\* before-hook-creation.
HookDelete(p) ==
  /\ pc[p] \in {"pre", "post"}
  /\ ~HookDeleted(p)
  /\ LET h == PhaseList(deployments[p], pc[p])[idx[p]]
     IN /\ h.policy = "before-hook-creation"
        /\ \E del \in DeleteOutcomes, dw \in BOOLEAN :
             LET D == DeleteObject(Cur, GetK8sRef(h), TRUE, del, dw)
             IN /\ Commit(D.S)
                /\ calls' = [calls EXCEPT ![p] = D.calls]
                /\ errs' = [errs EXCEPT ![p] = NewErrors(D.S)]
                /\ loc' = [loc EXCEPT ![p] =
                            [NoLoc EXCEPT !.ref = GetK8sRef(h), !.hook = TRUE, !.ret = pc[p],
                                          !.op = "delete",
                                          !.result = IF D.ok THEN "true" ELSE "false"]]
        /\ hist' = [hist EXCEPT ![p] = Append(@, [ph |-> pc[p], k |-> idx[p], name |-> h.name])]
  /\ UNCHANGED << cfgVars, deployedNewCRD, schedVars, pc, idx, ghostVars >>

\* HooksUtil.RunHooks: ApplyObject(hook, replaced, true) up to its first patch;
\* replaced says that the hook was deleted before.
RunHook(p) ==
  /\ pc[p] \in {"pre", "post"}
  /\ LET h == PhaseList(deployments[p], pc[p])[idx[p]]
         replaced == HookDeleted(p) /\ loc[p].result = "true"
     IN /\ h.policy = "before-hook-creation" => HookDeleted(p)
        /\ loc' = [loc EXCEPT ![p] = ApplyObjectBegin(h, replaced, TRUE, pc[p])]
        /\ hist' = [hist EXCEPT ![p] =
                     IF HookDeleted(p) THEN @
                     ELSE Append(@, [ph |-> pc[p], k |-> idx[p], name |-> h.name])]
  /\ pc' = [pc EXCEPT ![p] = "patch1"]
  /\ calls' = [calls EXCEPT ![p] = << >>]
  /\ errs' = [errs EXCEPT ![p] = 0]
  /\ UNCHANGED << cfgVars, stateVars, dewVars, schedVars, idx, ghostVars >>

\* ------------------------------------------------------------------ accesses without the mutex
\* The fields of the run state that the next step of worker p reads without
\* holding the mutex: abortSignal at the head of the apply loop (line 437), the
\* four maps for the final status (lines 460-471).
UnlockedReads(p) ==
  IF pc[p] = "obj" THEN {"abortSignal"}
  ELSE IF pc[p] = "finish"
  THEN {"AppliedObjects", "appliedHookObjects", "deletedObjects", "deletedHookObjects"}
  ELSE {}

\* The same for the loop of ApplyDeployments: abortSignal at line 495.
SchedUnlockedReads == IF sched.pc = "loop" THEN {"abortSignal"} ELSE {}

\* The apply loop never breaking.
ApplyLoopNeverBreaks(abort) == FALSE

\* applyDeploymentItem, lines 436-443: the head of the apply loop; it breaks on
\* abortSignal, else ApplyObject(o, false, false) runs up to its first patch.
\* The read of abortSignal is not under the mutex: it returns the value last
\* written or an older one, and an older one is what the same read returns in
\* the interleaving that schedules it before the write.
ApplyLoopBreaks(abort) == abort

ApplyLoop(p) ==
  /\ pc[p] = "obj"
  /\ LET d == deployments[p]
         obj == ApplyObjectsOf(d)[idx[p]]
         a == From(d, PhaseIndex("obj") + 1)
     IN IF ApplyLoopBreaks(abortSignal)
        THEN /\ pc' = [pc EXCEPT ![p] = a.pc]
             /\ idx' = [idx EXCEPT ![p] = a.idx]
             /\ UNCHANGED << loc, calls, errs, hist >>
        ELSE /\ pc' = [pc EXCEPT ![p] = "patch1"]
             /\ loc' = [loc EXCEPT ![p] = ApplyObjectBegin(obj, FALSE, FALSE, "obj")]
             /\ calls' = [calls EXCEPT ![p] = << >>]
             /\ errs' = [errs EXCEPT ![p] = 0]
             /\ hist' = [hist EXCEPT ![p] = Append(@, [ph |-> "obj", k |-> idx[p], name |-> obj.name])]
             /\ idx' = idx
  /\ UNCHANGED << cfgVars, stateVars, dewVars, schedVars, ghostVars >>

\* applyDeploymentItem, lines 459-480: the final status, and the return.
ItemFinish(p) ==
  /\ pc[p] = "finish"
  /\ Release(p)
  /\ UNCHANGED << cfgVars, stateVars, dewVars, sched, idx, hist, ghostVars >>

\* ------------------------------------------------------------------ ApplyDeployments
\* The loop position after item i.
Advance(i) ==
  IF i < Len(deployments) THEN [pc |-> "loop", i |-> i + 1]
  ELSE [pc |-> "final", i |-> i + 1]

\* ApplyDeployments, lines 493-511: one iteration dispatches item i.
Dispatch ==
  /\ sched.pc = "loop"
  /\ ~abortSignal
  /\ wg' = wg + 1
  /\ pc' = [pc EXCEPT ![sched.i] = "acquire"]
  /\ sched' = IF IsBarrier(deployments[sched.i]) THEN [sched EXCEPT !.pc = "barrier"]
              ELSE Advance(sched.i)
  /\ UNCHANGED << cfgVars, stateVars, dewVars, sem, loc, idx, calls, errs, hist, ghostVars >>

\* ApplyDeployments, lines 495-497: the loop ends on abortSignal.
DispatchBreak ==
  /\ sched.pc = "loop"
  /\ abortSignal
  /\ sched' = [sched EXCEPT !.pc = "final"]
  /\ UNCHANGED << cfgVars, stateVars, dewVars, sem, wg, procVars, ghostVars >>

\* ApplyDeployments, line 513: wg.Wait() of a barrier item returns.
BarrierWait ==
  /\ sched.pc = "barrier"
  /\ wg = 0
  /\ sched' = Advance(sched.i)
  /\ UNCHANGED << cfgVars, stateVars, dewVars, sem, wg, procVars, ghostVars >>

\* ApplyDeployments, lines 516-517: the final wg.Wait() returns.
FinalWait ==
  /\ sched.pc = "final"
  /\ wg = 0
  /\ sched' = [sched EXCEPT !.pc = "done"]
  /\ UNCHANGED << cfgVars, stateVars, dewVars, sem, wg, procVars, ghostVars >>

\* ------------------------------------------------------------------ ReplaceObject
\* What GetSingleObject returns for a reference that exists.
ServerObject(ref) ==
  [group |-> ref.group, kind |-> ref.kind, name |-> ref.name, rv |-> ServerRV,
   fixedForPatch |-> FALSE, resolved |-> FALSE, spec |-> "remote", phases |-> {},
   policy |-> "none", waitAnn |-> FALSE]

\* The callback of ReplaceObject: an error, the object unchanged, or changed.
CallbackOutcomes == {"err", "same", "changed"}

Callback(remoteCopy, cb) ==
  IF cb = "changed" THEN [remoteCopy EXCEPT !.spec = "modified"] ELSE remoteCopy

\* ReplaceObject, one iteration of its loop (lines 522-565) under the results
\* of GetSingleObject, the callback and UpdateObject.
\* next: "ret", "replace" (continue) or "panic" (handleResult of a nil object).
ReplaceObjectIter(S, ref, firstCall, firstVersion, get, gw, cb, upd, uw) ==
  LET useFirst == firstCall /\ firstVersion # Nil
      getCall == GwCall("Get", ref, FALSE, FALSE, get)
      S1 == IF useFirst THEN S ELSE handleApiWarnings(S, ref, gw)
      c1 == IF useFirst THEN << >> ELSE << getCall >>
      remote == IF useFirst THEN firstVersion
                ELSE IF get = "ok" THEN ServerObject(ref) ELSE Nil
  IN IF ~useFirst /\ get \notin {"ok", "NotFound"}
     THEN [S |-> HandleError(S1, ref, Err(get, "get")), calls |-> c1, next |-> "ret"]
     ELSE IF remote = Nil
     THEN [S |-> S1, calls |-> c1, next |-> "panic"]
     ELSE IF cb = "err"
     THEN [S |-> HandleError(S1, ref, Err("Other", "callback")), calls |-> c1, next |-> "ret"]
     ELSE LET modified == Callback(remote, cb)
              g == GatewayResult(modified, upd, "update")
              \* line 552: k8s.UpdateOptions{} leaves ForceDryRun false
              updCall == GwCall("Update", modified, FALSE, FALSE, upd)
              S2 == handleApiWarnings(S1, ref, uw)
          IN IF remote = modified
             THEN [S |-> handleResult(S1, remote, FALSE), calls |-> c1, next |-> "ret"]
             ELSE IF g.err # Nil
             THEN IF IsConflict(g.err)
                  THEN [S |-> S2, calls |-> c1 \o << updCall >>, next |-> "replace"]
                  ELSE [S |-> HandleError(S2, ref, g.err), calls |-> c1 \o << updCall >>,
                        next |-> "ret"]
             ELSE [S |-> handleResult(S2, g.r, FALSE), calls |-> c1 \o << updCall >>,
                   next |-> "ret"]

ReplaceObject(p) ==
  /\ ~Panicked
  /\ pc[p] = "replace"
  /\ LET L == loc[p]
         useFirst == L.n = 0 /\ L.firstVersion # Nil
     IN \E get \in Choices(~useFirst, GetOutcomes, "ok"),
           gw \in Choices(~useFirst, BOOLEAN, FALSE) :
        \E cb \in Choices(useFirst \/ get = "ok", CallbackOutcomes, "same") :
        \E upd \in Choices(cb = "changed", UpdateOutcomes, "ok"),
           uw \in Choices(cb = "changed", BOOLEAN, FALSE) :
          LET f == ReplaceObjectIter(Cur, L.ref, L.n = 0, L.firstVersion, get, gw, cb, upd, uw)
          IN /\ f.next = "replace" => L.n + 1 < MaxReplaceIters
             /\ Commit(f.S)
             /\ Log(p, f.S, f.calls)
             /\ Continue(p, [L EXCEPT !.n = @ + 1], "replace", f.next, "done")
  /\ UNCHANGED << cfgVars, deployedNewCRD, schedVars, hist, ghostVars >>

\* ------------------------------------------------------------------ callers of the exported operations
\* A client with calls left calls ApplyObject(x, replaced, hook).
CallApplyObject(p) ==
  /\ ~Panicked
  /\ pc[p] = "idle"
  /\ idx[p] > 0
  /\ \E x \in opObjects, replaced \in BOOLEAN, hook \in BOOLEAN :
       loc' = [loc EXCEPT ![p] = ApplyObjectBegin(x, replaced, hook, "client")]
  /\ pc' = [pc EXCEPT ![p] = "patch1"]
  /\ idx' = [idx EXCEPT ![p] = @ - 1]
  /\ calls' = [calls EXCEPT ![p] = << >>]
  /\ errs' = [errs EXCEPT ![p] = 0]
  /\ UNCHANGED << cfgVars, stateVars, dewVars, schedVars, hist, ghostVars >>

\* ... DeleteObject(ref, hook).
CallDeleteObject(p) ==
  /\ ~Panicked
  /\ pc[p] = "idle"
  /\ idx[p] > 0
  /\ \E x \in opObjects, hook \in BOOLEAN, del \in DeleteOutcomes, dw \in BOOLEAN :
       LET D == DeleteObject(Cur, GetK8sRef(x), hook, del, dw)
       IN /\ Commit(D.S)
          /\ calls' = [calls EXCEPT ![p] = D.calls]
          /\ errs' = [errs EXCEPT ![p] = NewErrors(D.S)]
          /\ loc' = [loc EXCEPT ![p] = [NoLoc EXCEPT !.ref = GetK8sRef(x), !.hook = hook,
                                                     !.ret = "client", !.op = "delete",
                                                     !.result = IF D.ok THEN "true" ELSE "false"]]
  /\ idx' = [idx EXCEPT ![p] = @ - 1]
  /\ UNCHANGED << cfgVars, deployedNewCRD, schedVars, pc, hist, ghostVars >>

\* ... WaitReadiness(ref, 0, pctx).
CallWaitReadiness(p) ==
  /\ ~Panicked
  /\ pc[p] = "idle"
  /\ idx[p] > 0
  /\ \E x \in opObjects :
       loc' = [loc EXCEPT ![p] = [NoLoc EXCEPT !.ref = GetK8sRef(x), !.ret = "client",
                                               !.op = "wait"]]
  /\ pc' = [pc EXCEPT ![p] = "wait"]
  /\ idx' = [idx EXCEPT ![p] = @ - 1]
  /\ calls' = [calls EXCEPT ![p] = << >>]
  /\ errs' = [errs EXCEPT ![p] = 0]
  /\ UNCHANGED << cfgVars, stateVars, dewVars, schedVars, hist, ghostVars >>

\* ... ReplaceObject(ref, firstVersion, callback).
CallReplaceObject(p) ==
  /\ ~Panicked
  /\ pc[p] = "idle"
  /\ idx[p] > 0
  /\ \E x \in opObjects, first \in BOOLEAN :
       loc' = [loc EXCEPT ![p] =
                 [NoLoc EXCEPT !.ref = GetK8sRef(x), !.ret = "client", !.op = "replace",
                               !.firstVersion = IF first THEN GetRemoteObject(GetK8sRef(x))
                                                ELSE Nil]]
  /\ pc' = [pc EXCEPT ![p] = "replace"]
  /\ idx' = [idx EXCEPT ![p] = @ - 1]
  /\ calls' = [calls EXCEPT ![p] = << >>]
  /\ errs' = [errs EXCEPT ![p] = 0]
  /\ UNCHANGED << cfgVars, stateVars, dewVars, schedVars, hist, ghostVars >>

\* Runs of direct calls: the clients, the calls each makes, the objects passed.
OpsScenario(o, r, cl, n, objs) ==
  [options |-> o, ru |-> r, clients |-> cl, budget |-> n, opObjects |-> objs]

OpsScenarios ==
  { OpsScenario(o, r, {1}, 1, {ObjDep, ObjCRD}) : o \in AllOptions, r \in { {}, RemoteAll } }
  \cup { OpsScenario([PlainOptions EXCEPT !.DryRun = dry], {}, Clients, 1, {ObjCRD}) :
           dry \in BOOLEAN }
  \cup { OpsScenario(PlainOptions, {}, {1}, 3, {ObjCRD}) }

InitOps ==
  /\ \E sc \in OpsScenarios :
       /\ options = sc.options
       /\ ru = sc.ru
       /\ opObjects = sc.opObjects
       /\ pc = [p \in Procs |-> IF p \in sc.clients THEN "idle" ELSE "none"]
       /\ idx = [p \in Procs |-> IF p \in sc.clients THEN sc.budget ELSE 0]
  /\ deployments = << >>
  /\ NewApplyUtil
  /\ sched = [pc |-> "done", i |-> 1]
  /\ sem = 0
  /\ wg = 0
  /\ loc = [p \in Procs |-> NoLoc]
  /\ calls = [p \in Procs |-> << >>]
  /\ errs = [p \in Procs |-> 0]
  /\ hist = [p \in Procs |-> << >>]

NextOps ==
  \/ \E p \in Procs : CallApplyObject(p)
  \/ \E p \in Procs : CallDeleteObject(p)
  \/ \E p \in Procs : CallWaitReadiness(p)
  \/ \E p \in Procs : CallReplaceObject(p)
  \/ \E p \in Procs : ApplyFirstPatch(p)
  \/ \E p \in Procs : ApplyRetryPatch(p)
  \/ \E p \in Procs : ApplyFinish(p)
  \/ \E p \in Procs : ForceReplaceFinish(p)
  \/ \E p \in Procs : WaitReadiness(p)
  \/ \E p \in Procs : ReplaceObject(p)

SpecOps == InitOps /\ [][NextOps]_vars

Next ==
  \/ Dispatch
  \/ DispatchBreak
  \/ BarrierWait
  \/ FinalWait
  \/ \E p \in Procs : Acquire(p)
  \/ \E p \in Procs : ItemSkipped(p)
  \/ \E p \in Procs : ItemDelete(p)
  \/ \E p \in Procs : HookDelete(p)
  \/ \E p \in Procs : RunHook(p)
  \/ \E p \in Procs : ApplyLoop(p)
  \/ \E p \in Procs : ApplyFirstPatch(p)
  \/ \E p \in Procs : ApplyRetryPatch(p)
  \/ \E p \in Procs : ApplyFinish(p)
  \/ \E p \in Procs : ForceReplaceFinish(p)
  \/ \E p \in Procs : WaitReadiness(p)
  \/ \E p \in Procs : ItemFinish(p)

Spec == Init /\ [][Next]_vars

\* The run under the scheduling of the Go runtime, with every gateway call
\* and readiness wait returning: a step that can be taken is taken.
\* The runs of the wide, the barrier and the replace deployments outside
\* dry-run.
LiveScenarios ==
  { sc \in DeployScenarios :
      /\ sc.deployments \in WideDeployments \cup BarrierDeployments \cup ReplaceDeployments
      /\ ~sc.options.DryRun }

InitLive == Init /\ Scenario(deployments, options, ru) \in LiveScenarios

SpecLive == InitLive /\ [][Next]_vars /\ WF_vars(Next)

\* ------------------------------------------------------------------ properties
Workers == 1..Len(deployments)

\* Worker p has entered applyDeploymentItem / has returned from it.
Started(p) == pc[p] \notin {"none", "acquire", "idle"}
Completed(p) == pc[p] = "done"
Inside(p) == Started(p) /\ ~Completed(p) /\ pc[p] # "panic"

\* C1: across a barrier item b, no worker of an item after b has started
\* applyDeploymentItem unless the workers of all items up to b, b included,
\* have completed.
C1_BarrierOrder ==
  \A b \in Workers :
    (deployments[b].ConfigBarrier \/ deployments[b].Barrier) =>
      \A j \in Workers : (j > b /\ Started(j)) => \A i \in 1..b : Completed(i)

\* Reached: an item after a barrier that is not the first item has started.
C1_Witness ==
  \E b \in Workers, j \in Workers :
    /\ b >= 2 /\ j > b
    /\ deployments[b].Barrier
    /\ ~deployments[b].ConfigBarrier
    /\ Started(j)

\* C2: at most SemWeight = 8 workers are inside applyDeploymentItem, and the
\* permits held are exactly those of the workers inside.
C2_SemaphoreBound ==
  /\ Cardinality({p \in Procs : Inside(p)}) <= SemWeight
  /\ sem = Cardinality({p \in Procs : Inside(p)})

\* Reached: all permits are held while a dispatched worker waits for one.
C2_Witness ==
  /\ Cardinality({p \in Procs : Inside(p)}) = SemWeight
  /\ \E p \in Procs : pc[p] = "acquire"

\* The positions of the apply ladder, and a step of p on it.
LadderPcs == {"patch1", "patch2", "finishapply", "frpatch"}
LadderStep(p) == pc[p] \in LadderPcs /\ pc'[p] # pc[p]

\* The gateway calls the step adds to the log of p.
NewCalls(p) == SubSeq(calls'[p], Len(calls[p]) + 1, Len(calls'[p]))
NoMatchPatch(c) == c.op = "Patch" /\ c.res = "NoMatch"

\* C3: with DryRun every mutating gateway call carries ForceDryRun, and a
\* WaitReadiness that has returned returned true without a Get.
C3_DryRunNeverMutates ==
  options.DryRun =>
    \A p \in Procs :
      /\ \A i \in 1..Len(calls[p]) :
           calls[p][i].op \in MutatingOps => calls[p][i].dry
      /\ (loc[p].op = "wait" /\ loc[p].result # "none") =>
           (loc[p].result = "true" /\ calls[p] = << >>)

\* C4 as stated: RediscoverResources is called at most once plus once per
\* successful CustomResourceDefinition patch; every NoMatch patch result seen
\* while the latch is armed disarms it, rediscovers once and is followed by
\* the retry of the patch; every NoMatch patch result seen while the latch is
\* disarmed leaves the latch and the rediscoveries alone, is not retried and
\* ends in a recorded error.
C4_AsStated ==
  [][ /\ rediscoverCalls' <= 1 + crdPatched'
      /\ \A p \in Procs : LadderStep(p) =>
            /\ \A i \in 1..Len(NewCalls(p)) : NoMatchPatch(NewCalls(p)[i]) =>
                  IF deployedNewCRD
                  THEN /\ ~deployedNewCRD'
                       /\ rediscoverCalls' = rediscoverCalls + 1
                       /\ pc'[p] = "patch2"
                  ELSE /\ ~deployedNewCRD'
                       /\ rediscoverCalls' = rediscoverCalls
                       /\ pc'[p] # "patch2"
            /\ (pc[p] = "finishapply" /\ IsNoMatchError(loc[p].err)) =>
                  /\ errs'[p] = errs[p] + 1
                  /\ \E e \in BagToSet(dewErrors') : e.ref = loc[p].ref /\ e.err = loc[p].err
    ]_vars

\* C4, amended: the bound on the rediscoveries holds. A NoMatch result of the
\* first patch of an ApplyObject seen while the latch is armed disarms it and
\* calls RediscoverResources once; the patch is then retried, exactly once, if
\* and only if the rediscovery succeeded, else the rediscovery's error is the
\* error of the patch. A NoMatch result of the first patch seen while the
\* latch is disarmed, and a NoMatch result of any later patch of the ladder
\* whatever the latch, leaves latch and rediscoveries alone, is not retried
\* and ends in a recorded error for the ref. RediscoverResources is called
\* nowhere else.
C4_RediscoverOncePerArming ==
  [][ /\ rediscoverCalls' <= 1 + crdPatched'
      /\ rediscoverCalls' # rediscoverCalls =>
            \E p \in Procs : /\ LadderStep(p) /\ pc[p] = "patch1" /\ deployedNewCRD
                             /\ NoMatchPatch(NewCalls(p)[1])
      /\ \A p \in Procs : LadderStep(p) =>
            /\ (pc[p] = "patch1" /\ NoMatchPatch(NewCalls(p)[1])) =>
                  IF deployedNewCRD
                  THEN /\ ~deployedNewCRD'
                       /\ rediscoverCalls' = rediscoverCalls + 1
                       /\ Len(NewCalls(p)) = 2
                       /\ NewCalls(p)[2].op = "Rediscover"
                       /\ IF NewCalls(p)[2].res = "ok"
                          THEN pc'[p] = "patch2"
                          ELSE /\ pc'[p] = "finishapply"
                               /\ loc'[p].err = Err(NewCalls(p)[2].res, "rediscover")
                  ELSE /\ ~deployedNewCRD'
                       /\ rediscoverCalls' = rediscoverCalls
                       /\ Len(NewCalls(p)) = 1
                       /\ pc'[p] = "finishapply"
                       /\ IsNoMatchError(loc'[p].err)
            /\ (pc[p] # "patch1" /\ \E i \in 1..Len(NewCalls(p)) : NoMatchPatch(NewCalls(p)[i])) =>
                  /\ deployedNewCRD' = deployedNewCRD
                  /\ rediscoverCalls' = rediscoverCalls
                  /\ pc'[p] # "patch2"
                  /\ IF pc[p] = "patch2"
                     THEN pc'[p] = "finishapply" /\ IsNoMatchError(loc'[p].err)
                     ELSE errs'[p] = errs[p] + 1
            /\ pc[p] = "patch2" =>
                  /\ pc'[p] = "finishapply"
                  /\ Len(NewCalls(p)) = 1
                  /\ NewCalls(p)[1].op = "Patch"
                  /\ NewCalls(p)[1].arg = calls[p][1].arg
            /\ (pc[p] = "finishapply" /\ IsNoMatchError(loc[p].err)) =>
                  /\ errs'[p] = errs[p] + 1
                  /\ NewCalls(p) = << >>
                  /\ \E e \in BagToSet(dewErrors') : e.ref = loc[p].ref /\ e.err = loc[p].err
    ]_vars

\* Reached: the latch, armed again by a CustomResourceDefinition patch, has
\* led to a second rediscovery, whose patch is about to be retried.
C4_Witness ==
  /\ rediscoverCalls = 2
  /\ crdPatched >= 1
  /\ ~deployedNewCRD
  /\ \E p \in Procs : pc[p] = "patch2" /\ NoMatchPatch(calls[p][1])

\* A patch or update of the ladder that returned success.
Succeeded(c) == c.op \in {"Patch", "Update"} /\ c.res = "ok"

\* C5 as stated: in a pass of ApplyObject a successful step of the ladder is
\* the last gateway call of the pass, and the pass records no error.
C5_AsStated ==
  \A p \in Procs : loc[p].op = "apply" =>
    \A i \in 1..Len(calls[p]) : Succeeded(calls[p][i]) =>
      i = Len(calls[p]) /\ errs[p] = 0

\* C5, amended: a successful step of the ladder other than the first patch of
\* a CustomResourceDefinition is the last gateway call of the pass, and the
\* pass records no error; the successful first patch of a
\* CustomResourceDefinition is followed by one unforced Patch of the same
\* object, whose result is treated as the first patch's would be.
C5_SuccessEndsLadder ==
  \A p \in Procs : loc[p].op = "apply" =>
    \A i \in 1..Len(calls[p]) : Succeeded(calls[p][i]) =>
      IF i = 1 /\ loc[p].ref.group = CRDGroup /\ loc[p].ref.kind = CRDKind
      THEN IF Len(calls[p]) = 1
           THEN pc[p] = "patch2" /\ errs[p] = 0
           ELSE /\ calls[p][2].op = "Patch"
                /\ ~calls[p][2].force
                /\ calls[p][2].arg = calls[p][1].arg
      ELSE i = Len(calls[p]) /\ errs[p] = 0

\* Reached: a CustomResourceDefinition pass has returned after its first
\* patch and the retry of it both succeeded.
C5_Witness ==
  \E p \in Procs :
    /\ loc[p].op = "apply" /\ loc[p].result = "done"
    /\ loc[p].ref.kind = CRDKind
    /\ Len(calls[p]) = 2
    /\ Succeeded(calls[p][1]) /\ Succeeded(calls[p][2])

\* C6 as stated: when the run has completed, no ref without a recorded error
\* is both a key of AppliedObjects and a member of DeletedObjects.
C6_AsStated ==
  sched.pc = "done" =>
    \A ref \in (DOMAIN AppliedObjects) \cap deletedObjects : HadError(Cur, ref)

\* C7: the keys of AppliedHookObjects are keys of AppliedObjects; a step that
\* writes an entry of AppliedHookObjects writes the same object under the same
\* ref into AppliedObjects; and a hook-flagged ApplyObject whose last gateway
\* call succeeded leaves its result in both maps.
C7_HookResultInBoth ==
  [][ /\ DOMAIN appliedHookObjects' \subseteq DOMAIN AppliedObjects'
      /\ \A ref \in DOMAIN appliedHookObjects' :
           (ref \notin DOMAIN appliedHookObjects
              \/ appliedHookObjects'[ref] # appliedHookObjects[ref]) =>
             AppliedObjects'[ref] = appliedHookObjects'[ref]
      /\ \A p \in Procs :
           (/\ LadderStep(p) /\ loc[p].hook
            /\ pc'[p] \notin LadderPcs
            /\ calls'[p] # << >>
            /\ Succeeded(calls'[p][Len(calls'[p])])) =>
             \E ref \in DOMAIN appliedHookObjects' :
               /\ ref.group = loc[p].ref.group /\ ref.kind = loc[p].ref.kind
               /\ appliedHookObjects'[ref].rv = ServerRV
               /\ AppliedObjects'[ref] = appliedHookObjects'[ref]
    ]_vars

\* Reached: a hook-flagged ApplyObject has recorded its result while another
\* client is inside the ladder.
C7_Witness ==
  \E p \in Procs, q \in Procs :
    /\ p # q
    /\ loc[p].op = "apply" /\ loc[p].hook /\ loc[p].result = "done"
    /\ loc[p].ref \in DOMAIN appliedHookObjects
    /\ pc[q] \in LadderPcs

\* A step of worker p.
WorkerStep(p) ==
  \/ Acquire(p) \/ ItemSkipped(p) \/ ItemDelete(p) \/ HookDelete(p) \/ RunHook(p)
  \/ ApplyLoop(p) \/ ApplyFirstPatch(p) \/ ApplyRetryPatch(p) \/ ApplyFinish(p)
  \/ ForceReplaceFinish(p) \/ WaitReadiness(p) \/ ItemFinish(p)

\* C8: with AbortOnError every step that records an error leaves abortSignal
\* set, only such a step sets it, and it is never reset; while it is set the
\* scheduler dispatches no item and no worker starts a regular object, and
\* every worker inside applyDeploymentItem can still take its next step.
\* Without AbortOnError abortSignal stays false.
C8_AbortSignal ==
  [][ /\ abortSignal => abortSignal'
      /\ (options.AbortOnError /\ BagCardinality(dewErrors') > BagCardinality(dewErrors))
           => abortSignal'
      /\ (abortSignal' /\ ~abortSignal)
           => BagCardinality(dewErrors') > BagCardinality(dewErrors)
      /\ ~options.AbortOnError => ~abortSignal'
      /\ abortSignal =>
           \A p \in Procs :
             /\ pc[p] = "none" => pc'[p] = "none"
             /\ hist'[p] # hist[p] => hist'[p][Len(hist'[p])].ph # "obj"
             /\ Inside(p) => ENABLED WorkerStep(p)
    ]_vars

\* The regular objects worker p has started.
ObjStarted(p) == {i \in 1..Len(hist[p]) : hist[p][i].ph = "obj"}

\* Reached: the run has ended on abortSignal with an item never dispatched
\* and a worker that skipped a regular object of its item.
C8_Witness ==
  /\ abortSignal
  /\ sched.pc = "done"
  /\ \E p \in Workers : pc[p] = "none"
  /\ \E q \in Workers :
       /\ Completed(q)
       /\ Cardinality(ObjStarted(q)) = 1
       /\ Len(SelectSeq(deployments[q].Objects, LAMBDA o : o.phases = {})) = 2

\* The names of the hooks worker p ran in phase ph.
HooksRun(p, ph) == {hist[p][i].name : i \in {j \in 1..Len(hist[p]) : hist[p][j].ph = ph}}

\* The names of the hooks of item d annotated with one of the phases.
HooksOf(d, phases) ==
  {d.Objects[i].name : i \in {j \in 1..Len(d.Objects) : d.Objects[j].phases \cap phases # {}}}

\* C9 as stated: a worker that has completed an included item has run, as
\* pre-hooks and as post-hooks, the initial sets if every object of the item
\* is absent from the remote cache, and the upgrade sets otherwise.
C9_AsStated ==
  \A p \in Workers : (Completed(p) /\ deployments[p].included) =>
    LET d == deployments[p]
        absent == \A i \in 1..Len(d.Objects) : GetK8sRef(d.Objects[i]) \notin ru
    IN IF absent
       THEN /\ HooksRun(p, "pre") = HooksOf(d, {"pre-deploy-initial", "pre-deploy"})
            /\ HooksRun(p, "post") = HooksOf(d, {"post-deploy-initial", "post-deploy"})
       ELSE /\ HooksRun(p, "pre") = HooksOf(d, {"pre-deploy-upgrade", "pre-deploy"})
            /\ HooksRun(p, "post") = HooksOf(d, {"post-deploy-upgrade", "post-deploy"})

\* The place of a started operation in the order of an item.
Rank(ph) ==
  CASE ph = "del" -> 1 [] ph = "pre" -> 2 [] ph \in {"obj", "wait"} -> 3 [] ph = "post" -> 4

\* The entries of phase ph in what worker p has started, in order.
Started_(p, ph) == SelectSeq(hist[p], LAMBDA e : e.ph = ph)

\* The order of what worker p has started.
Ordered(p) ==
  LET h == hist[p]
      d == deployments[p]
      regular == SelectSeq(d.Objects, LAMBDA o : o.phases = {})
  IN /\ \A i \in 1..Len(h), j \in 1..Len(h) : i < j => Rank(h[i].ph) <= Rank(h[j].ph)
     /\ \A ph \in {"del", "pre", "obj", "post"} :
          \A i \in 1..Len(Started_(p, ph)) : Started_(p, ph)[i].k = i
     /\ \A i \in 1..Len(Started_(p, "del")) :
          Started_(p, "del")[i].name = d.DeleteObjects[i].name
     /\ \A i \in 1..Len(Started_(p, "obj")) :
          Started_(p, "obj")[i].name = regular[i].name
     /\ (\E i \in 1..Len(h) : h[i].ph # "del") =>
          Len(Started_(p, "del")) = Len(d.DeleteObjects)
     /\ \A i \in 1..Len(h) : h[i].ph = "wait" =>
          i > 1 /\ h[i - 1].ph = "obj" /\ h[i - 1].k = h[i].k
     /\ (\E i \in 1..Len(h) : h[i].ph = "post") =>
          Len(Started_(p, "obj")) = Len(regular) \/ abortSignal

\* C10: what a worker starts is ordered deletes, pre-hooks, regular objects,
\* post-hooks; the deletes are all of the item's and in declared order, the
\* regular objects are started in declared order, a readiness wait follows
\* the apply of its object, post-hooks follow the last regular object unless
\* the apply loop broke on abortSignal; and the worker starts an operation
\* only when the one before has returned.
C10_ItemOrder ==
  [][ \A p \in Workers :
        /\ Ordered(p)'
        /\ hist'[p] # hist[p] =>
             /\ pc[p] \notin LadderPcs
             /\ pc[p] = "wait" => loc[p].op = "apply"
    ]_vars

\* Reached: a worker has returned after a delete, a pre-hook, a regular
\* object with its readiness wait and a post-hook.
C10_Witness ==
  \E p \in Workers :
    /\ Completed(p)
    /\ \A ph \in {"del", "pre", "obj", "wait", "post"} :
         \E i \in 1..Len(hist[p]) : hist[p][i].ph = ph

\* ApplyDeployments has returned.
Returned == sched.pc = "done"

\* C11: ApplyDeployments eventually returns, and when it has returned every
\* dispatched worker has finished applyDeploymentItem and released its
\* permit: no permit is held and the WaitGroup counter is zero.
C11_Terminates ==
  /\ <>Returned
  /\ [](Returned =>
          /\ \A p \in Procs : pc[p] \in {"none", "done"}
          /\ sem = 0
          /\ wg = 0)

\* Reached: a run with a barrier item and a recorded error has returned with
\* all its workers done.
C11_Witness ==
  /\ Returned
  /\ \E b \in Workers : IsBarrier(deployments[b])
  /\ dewErrors # EmptyBag
  /\ \A p \in Workers : Completed(p)

\* C12: the worker of an item whose CheckInclusionForDeploy() is false only
\* acquires its permit, skips and returns: it starts no delete, hook, apply
\* or readiness wait, makes no gateway call, and its steps leave the four
\* maps, abortSignal, the latch and the sink unchanged.
C12_SkippedItemUntouched ==
  [][ \A p \in Workers : ~deployments[p].included =>
        /\ pc'[p] \in {"none", "acquire", "skip", "done"}
        /\ hist'[p] = << >>
        /\ calls'[p] = << >>
        /\ errs'[p] = 0
        /\ pc'[p] # pc[p] => UNCHANGED << stateVars, dewVars >>
    ]_vars

\* Reached: the worker of an excluded item that has delete directives has
\* returned.
C12_Witness ==
  \E p \in Workers :
    /\ ~deployments[p].included
    /\ Len(deployments[p].DeleteObjects) > 0
    /\ Completed(p)

\* What a step may do to the latch.
LatchStep ==
  /\ (~deployedNewCRD /\ deployedNewCRD') =>
       \E p \in Procs :
         /\ LadderStep(p)
         /\ \E i \in 1..Len(NewCalls(p)) :
              /\ Succeeded(NewCalls(p)[i]) /\ NewCalls(p)[i].op = "Patch"
              /\ NewCalls(p)[i].arg.group = CRDGroup
              /\ NewCalls(p)[i].arg.kind = CRDKind
  /\ (deployedNewCRD /\ ~deployedNewCRD') =>
       \E p \in Procs :
         /\ LadderStep(p)
         /\ Len(NewCalls(p)) = 2
         /\ NoMatchPatch(NewCalls(p)[1])
         /\ NewCalls(p)[2].op = "Rediscover"
  /\ rediscoverCalls' # rediscoverCalls => ~deployedNewCRD'

\* C13: the latch starts true; it goes from false to true only in a step of
\* the ladder whose Patch of a CustomResourceDefinition returned success; it
\* goes from true to false only in a step whose Patch returned NoMatch and
\* that called RediscoverResources; and a step that rediscovers leaves it
\* false.
C13_LatchTransitions ==
  /\ (rediscoverCalls = 0 /\ crdPatched = 0) => deployedNewCRD
  /\ [][LatchStep]_vars

\* Reached: the latch, disarmed by a rediscovery, is armed again by a
\* successful CustomResourceDefinition patch.
C13_Witness ==
  /\ deployedNewCRD
  /\ rediscoverCalls = 1
  /\ crdPatched >= 1
  /\ \E p \in Procs : pc[p] = "patch2" /\ Succeeded(calls[p][1])

\* ------------------------------------------------------------------ C14
\* The step in which the ladder of p handles a patch that failed with Conflict.
ConflictStep(p) ==
  pc[p] = "finishapply" /\ pc'[p] # pc[p] /\ IsConflict(loc[p].err)

\* The step recorded exactly the error err under ref, and no result.
RecordsErrorAt(ref, err) ==
  /\ dewErrors' = dewErrors (+) SetToBag({[ref |-> ref, err |-> err]})
  /\ AppliedObjects' = AppliedObjects
  /\ appliedHookObjects' = appliedHookObjects

\* The step of p recorded exactly the error err under the ref of its object.
RecordsError(p, err) == RecordsErrorAt(loc[p].ref, err)

\* The ref the retry functions work under: that of the object as patched.
PatchedRef(p) == GetK8sRef(loc[p].x)

\* The step of p recorded the object r as its result, and no error.
RecordsResult(p, r) ==
  /\ dewErrors' = dewErrors
  /\ GetK8sRef(r) \in DOMAIN AppliedObjects'
  /\ AppliedObjects'[GetK8sRef(r)] = r
  /\ loc[p].hook => /\ GetK8sRef(r) \in DOMAIN appliedHookObjects'
                    /\ appliedHookObjects'[GetK8sRef(r)] = r

\* The lost-ownership warnings 1..k of the conflict path of p.
LostWarnings(p, k) ==
  SetToBag({[ref |-> PatchedRef(p), warning |-> [lost |-> n]] : n \in 1..k})

\* The step of p made the one forced Patch of object x2 and recorded its
\* result or its error.
ForcedRepatch(p, x2) ==
  LET nc == NewCalls(p) IN
  /\ Len(nc) = 1
  /\ nc[1] = GwCall("Patch", x2, options.DryRun, TRUE, nc[1].res)
  /\ IF nc[1].res = "ok"
     THEN RecordsResult(p, [x2 EXCEPT !.rv = ServerRV])
     ELSE RecordsErrorAt(PatchedRef(p), Err(nc[1].res, "conflictpatch"))

\* The conflict path as the claim words it: without a baseline the conflict
\* error, else always one forced Patch.
ConflictPathAsStated(p) ==
  LET L == loc[p] IN
  /\ \A i \in 1..Len(NewCalls(p)) : NewCalls(p)[i].op \notin {"Update", "Delete"}
  /\ pc'[p] \notin LadderPcs
  /\ IF L.remoteObject = Nil
     THEN NewCalls(p) = << >> /\ RecordsErrorAt(PatchedRef(p), L.err) /\ dewWarnings' = dewWarnings
     ELSE IF options.ForceApply
     THEN ForcedRepatch(p, L.x) /\ dewWarnings' = dewWarnings
     ELSE /\ ForcedRepatch(p, [L.x EXCEPT !.resolved = TRUE])
          /\ \E k \in 0..MaxLost : dewWarnings' = dewWarnings (+) LostWarnings(p, k)

\* The conflict path of the code: the resolver may fail, and then its error is
\* recorded and no Patch follows.
ConflictPath(p) ==
  LET L == loc[p] IN
  /\ \A i \in 1..Len(NewCalls(p)) : NewCalls(p)[i].op \notin {"Update", "Delete"}
  /\ pc'[p] \notin LadderPcs
  /\ IF L.remoteObject = Nil
     THEN NewCalls(p) = << >> /\ RecordsErrorAt(PatchedRef(p), L.err) /\ dewWarnings' = dewWarnings
     ELSE IF options.ForceApply
     THEN ForcedRepatch(p, L.x) /\ dewWarnings' = dewWarnings
     ELSE \/ /\ ForcedRepatch(p, [L.x EXCEPT !.resolved = TRUE])
             /\ \E k \in 0..MaxLost : dewWarnings' = dewWarnings (+) LostWarnings(p, k)
          \/ /\ NewCalls(p) = << >>
             /\ RecordsErrorAt(PatchedRef(p), Err("Other", "resolve"))
             /\ dewWarnings' = dewWarnings

AllConflictStepsAsStated == \A p \in Procs : ConflictStep(p) => ConflictPathAsStated(p)

AllConflictSteps == \A p \in Procs : ConflictStep(p) => ConflictPath(p)

PatchError(p) ==
  LET ps == SelectSeq(calls[p], LAMBDA c : c.op = "Patch") IN ps[Len(ps)].res

\* The step in which the ladder of p classifies the outcome of its patch.
ClassifyStep(p) == pc[p] = "finishapply" /\ pc'[p] # pc[p]

ReplaceAllowed(p) ==
  /\ PatchError(p) \notin {"ok", "NoMatch", "Conflict", "InternalError"}
  /\ options.ReplaceOnError
  /\ loc[p].remoteObject # Nil

\* The step of p recorded an error under its ref.
ErrorRecorded(p) ==
  /\ errs'[p] = errs[p] + 1
  /\ \E e \in BagToSet(dewErrors') :
       e.ref = loc[p].ref /\ CopiesIn(e, dewErrors') = CopiesIn(e, dewErrors) + 1

UpdateAndDeleteAsStated ==
  \A p \in Procs : LadderStep(p) =>
    LET nc == NewCalls(p) IN
    /\ \A i \in 1..Len(nc) :
         /\ nc[i].op = "Update" => ClassifyStep(p) /\ ReplaceAllowed(p)
         /\ nc[i].op = "Delete" =>
              /\ ClassifyStep(p) /\ ReplaceAllowed(p)
              /\ i > 1 /\ nc[i - 1].op = "Update" /\ nc[i - 1].res # "ok"
              /\ options.ForceReplaceOnError
    /\ (ClassifyStep(p) /\ PatchError(p) \notin {"ok", "Conflict"} /\ ~ReplaceAllowed(p)) =>
         nc = << >> /\ ErrorRecorded(p) /\ pc'[p] \notin LadderPcs
    /\ (ClassifyStep(p) /\ PatchError(p) = "Conflict" /\ loc[p].remoteObject = Nil) =>
         nc = << >> /\ ErrorRecorded(p) /\ pc'[p] \notin LadderPcs
    /\ (ClassifyStep(p) /\ Len(nc) > 0 /\ nc[Len(nc)].op = "Update" /\ nc[Len(nc)].res # "ok") =>
         ~options.ForceReplaceOnError /\ ErrorRecorded(p) /\ pc'[p] \notin LadderPcs

\* C15 as stated: the ladder calls Update only if the error of the patch is
\* neither NoMatch, Conflict nor InternalError, ReplaceOnError is set and the
\* remote baseline is not nil, and Delete only if in addition that Update
\* failed and ForceReplaceOnError is set; in every other failing case
\* (InternalError, NoMatch, ReplaceOnError false, no baseline,
\* ForceReplaceOnError false) an error is recorded for the ref and the ladder
\* makes no further gateway call.
C15_AsStated == [][UpdateAndDeleteAsStated]_vars

\* ------------------------------------------------------------------ C16
UpdateGetsStampedClone ==
  \A p \in Procs : LadderStep(p) =>
    /\ \A i \in 1..Len(NewCalls(p)) :
         NewCalls(p)[i].op = "Update" =>
           /\ NewCalls(p)[i].arg = [loc[p].x EXCEPT !.rv = loc[p].remoteObject.rv]
           /\ NewCalls(p)[i].arg.rv = GetRemoteObject(loc[p].ref).rv
    /\ pc'[p] \in LadderPcs => loc'[p].x = loc[p].x

\* C16 as stated: in the replace path the object handed to the gateway's
\* Update is a clone of the desired object x carrying the resourceVersion of
\* the remote baseline from the remote cache, and x itself is not modified.
C16_AsStated == [][UpdateGetsStampedClone]_vars

\* ------------------------------------------------------------------ C17
\* The step in which the ladder of p enters the force-replace path and deletes.
ForceDeleteStep(p) ==
  /\ ClassifyStep(p)
  /\ \E i \in 1..Len(NewCalls(p)) : NewCalls(p)[i].op = "Delete"

\* The step of the force-replace path after its successful delete.
ForceRepatchStep(p) == pc[p] = "frpatch" /\ pc'[p] # pc[p]

ForceReplaceAsStated ==
  \A p \in Procs :
    LET nc == NewCalls(p)
        L == loc[p]
    IN
    /\ ForceDeleteStep(p) =>
         /\ options.ForceReplaceOnError
         /\ nc[Len(nc)] = GwCall("Delete", L.ref, options.DryRun, FALSE, nc[Len(nc)].res)
         /\ \A i \in 1..Len(nc) : nc[i].op # "Patch"
         /\ IF nc[Len(nc)].res = "ok"
            THEN pc'[p] = "frpatch" /\ dewErrors' = dewErrors
            ELSE pc'[p] \notin LadderPcs /\ ErrorRecorded(p)
    /\ ForceRepatchStep(p) =>
         /\ calls[p][Len(calls[p])].op = "Delete" /\ calls[p][Len(calls[p])].res = "ok"
         /\ pc'[p] \notin LadderPcs
         /\ IF options.DryRun
            THEN nc = << >> /\ RecordsResult(p, L.x)
            ELSE /\ Len(nc) = 1
                 /\ nc[1] = GwCall("Patch", L.x, FALSE, FALSE, nc[1].res)
                 /\ IF nc[1].res = "ok"
                    THEN RecordsResult(p, [L.x EXCEPT !.rv = ServerRV])
                    ELSE ErrorRecorded(p)

\* C17 as stated: in the force-replace path Delete is issued before any
\* re-Patch; outside dry-run the object is patched again after the delete and
\* the result of that patch is recorded, under dry-run no Patch follows and x
\* itself is recorded; and whenever the path yields no result (the delete did
\* not succeed, or the re-patch failed) an error is recorded for the ref.
C17_AsStated == [][ForceReplaceAsStated]_vars

\* ------------------------------------------------------------------ C18
\* The ladder of p has called RediscoverResources and the call failed.
RediscoveryFailed(cs) ==
  \E i \in 1..Len(cs) : cs[i].op = "Rediscover" /\ cs[i].res # "ok"

RediscoveryErrorSurfaced ==
  \A p \in Procs : LadderStep(p) =>
    /\ RediscoveryFailed(NewCalls(p)) => pc'[p] = "finishapply"
    /\ RediscoveryFailed(calls[p]) =>
         /\ NewCalls(p) = << >>
         /\ pc'[p] \notin LadderPcs
         /\ RecordsError(p, Err(calls[p][Len(calls[p])].res, "rediscover"))

\* C18 as stated: when a NoMatch patch result triggers RediscoverResources and
\* the rediscovery fails, the rediscovery error is recorded for the ref of the
\* object, the patch is not retried, and neither Update nor Delete is
\* attempted, whatever the options and the remote baseline.
C18_AsStated == [][RediscoveryErrorSurfaced]_vars

\* ------------------------------------------------------------------ C19
\* The ladder of p runs under the dry-run workaround of lines 235-244.
DummyNamed(p) ==
  options.DryRun /\ loc[p].replaced /\ loc[p].remoteObject # Nil

DummyRef(p) == [loc[p].ref EXCEPT !.name = DummyName(loc[p].ref.name)]

DummyNameHiddenAsStated ==
  \A p \in Procs : (LadderStep(p) /\ DummyNamed(p)) =>
    /\ \A i \in 1..Len(NewCalls(p)) :
         NewCalls(p)[i].op = "Patch" => GetK8sRef(NewCalls(p)[i].arg) = DummyRef(p)
    /\ DummyRef(p) \notin DOMAIN AppliedObjects'
    /\ AppliedObjects' # AppliedObjects =>
         /\ loc[p].ref \in DOMAIN AppliedObjects'
         /\ AppliedObjects'[loc[p].ref].name = loc[p].ref.name
    /\ \A e \in BagToSet(dewErrors') :
         CopiesIn(e, dewErrors') > CopiesIn(e, dewErrors) => e.ref = loc[p].ref

\* C19 as stated: under DryRun, for an object marked replaced that has a remote
\* baseline, every Patch the gateway sees uses the dummy name, the object
\* recorded in AppliedObjects is keyed by and carries the original name
\* whatever rung produced it (first patch, retried patch, conflict re-patch),
\* and every error is recorded under the original ref, never the dummy one.
C19_AsStated == [][DummyNameHiddenAsStated]_vars

\* ------------------------------------------------------------------ C20
\* One iteration of the loop of ReplaceObject run by p.
ReplaceStep(p) ==
  pc[p] = "replace" /\ (pc'[p] # pc[p] \/ loc'[p].n # loc[p].n)

\* The call of p has returned to its caller.
ReplaceReturned(p) == pc'[p] \notin {"replace", "panic"} /\ loc'[p].result = "done"

ReplaceLoopAsStated ==
  \A p \in Procs : ReplaceStep(p) =>
    LET L == loc[p]
        nc == NewCalls(p)
        useFirst == L.n = 0 /\ L.firstVersion # Nil
        gets == SelectSeq(nc, LAMBDA c : c.op = "Get")
        upds == SelectSeq(nc, LAMBDA c : c.op = "Update")
        baseline == IF useFirst THEN L.firstVersion ELSE ServerObject(L.ref)
    IN /\ Len(gets) = (IF useFirst THEN 0 ELSE 1)
       /\ Len(upds) <= 1
       /\ nc = gets \o upds
       /\ \A i \in 1..Len(gets) : gets[i].arg = L.ref
       /\ IF Len(gets) = 1 /\ gets[1].res # "ok"
          THEN upds = << >> /\ ErrorRecorded(p) /\ ReplaceReturned(p)
          ELSE IF upds = << >>
          THEN /\ RecordsResult(p, baseline) \/ ErrorRecorded(p)
               /\ ReplaceReturned(p)
          ELSE /\ upds[1].arg # baseline
               /\ IF upds[1].res = "Conflict"
                  THEN /\ pc'[p] = "replace" /\ loc'[p].n = L.n + 1
                       /\ dewErrors' = dewErrors
                       /\ AppliedObjects' = AppliedObjects
                  ELSE IF upds[1].res = "ok"
                  THEN RecordsResult(p, [upds[1].arg EXCEPT !.rv = ServerRV])
                       /\ ReplaceReturned(p)
                  ELSE ErrorRecorded(p) /\ ReplaceReturned(p)

\* C20 as stated: ReplaceObject is a read-modify-write loop. firstVersion is
\* the baseline of the first iteration only, every later iteration reads the
\* remote object; Update is called only when the callback's output differs
\* from the baseline, an unchanged object being recorded as the result without
\* Update; an Update failing with Conflict leads to another iteration and
\* records no error; any other error of Get, the callback or Update is recorded
\* once and ends the loop; the call returns as soon as an iteration meets no
\* Conflict.
C20_AsStated == [][ReplaceLoopAsStated]_vars

\* ------------------------------------------------------------------ C21
\* One poll of WaitReadiness by p.
PollStep(p) == pc[p] = "wait" /\ loc'[p] # loc[p]

\* The calls the poll of p made: the Get and, after a successful Get, the
\* validation.
PollCalls(p) ==
  IF loc[p].op # "wait" \/ loc[p].n = 0
  THEN calls'[p]
  ELSE SubSeq(calls'[p], Len(calls[p]) + 1, Len(calls'[p]))

\* The errors the step added to the sink, all under ref.
ErrorsAddedFor(ref) ==
  /\ BagCardinality(dewErrors') > BagCardinality(dewErrors)
  /\ \A e \in BagToSet(dewErrors') :
       CopiesIn(e, dewErrors') > CopiesIn(e, dewErrors) => e.ref = ref

\* The kinds of the errors the step added.
KindsAdded ==
  {e.err.kind : e \in {f \in BagToSet(dewErrors') :
                         CopiesIn(f, dewErrors') > CopiesIn(f, dewErrors)}}

PollOutcome(p) ==
  LET pcs == PollCalls(p)
      ref == loc[p].ref
      polls == IF loc[p].op # "wait" THEN 0 ELSE loc[p].n
      get == pcs[1]
      validated == Len(pcs) = 2
      v == pcs[2].res
      returnedTrue == pc'[p] # "wait" /\ loc'[p].result = "true"
      returnedFalse == pc'[p] # "wait" /\ loc'[p].result = "false"
      again == pc'[p] = "wait" /\ loc'[p].n = polls + 1 /\ loc'[p].result = "none"
  IN /\ Len(pcs) \in {1, 2}
     /\ get = GwCall("Get", ref, FALSE, FALSE, get.res)
     /\ validated <=> get.res = "ok"
     /\ validated => pcs[2].op = "Validate"
     /\ returnedTrue \/ returnedFalse \/ again
     /\ returnedTrue <=> (validated /\ v.Ready)
     /\ returnedTrue => dewErrors' = dewErrors
     /\ returnedFalse => ErrorsAddedFor(ref)
     /\ returnedFalse =>
          \/ get.res = "NotFound" /\ KindsAdded = {"Disappeared"}
          \/ get.res \notin {"ok", "NotFound"} /\ KindsAdded = {get.res}
          \/ /\ validated /\ ~v.Ready /\ v.Errors # 0
             /\ BagCardinality(dewErrors') = BagCardinality(dewErrors) + v.Errors
             /\ KindsAdded = {"Validation"}
          \/ /\ validated /\ ~v.Ready /\ v.Errors = 0
             /\ options.WaitObjectTimeout > 0
             /\ KindsAdded = {"Timeout"}
     /\ again => /\ validated /\ ~v.Ready /\ v.Errors = 0
                 /\ dewErrors' = dewErrors

AllPolls ==
  \A p \in Procs : (PollStep(p) /\ ~options.DryRun) => PollOutcome(p)

\* C21: outside dry-run WaitReadiness returns true only after a poll whose Get
\* succeeded and whose validation reported Ready, Ready being tested before
\* Errors; every return of false (Get NotFound, another Get error, validation
\* errors, or the timeout when it is positive) has recorded at least one error
\* for the ref; a poll that is neither ready, failed nor timed out is followed
\* by another poll and records nothing.
C21_WaitReadiness == [][AllPolls]_vars

\* A wait returned true on its second poll, whose validation reported Ready
\* together with errors, the first poll having been neither ready nor failed.
C21_Witness ==
  \E p \in Procs :
    /\ loc[p].op = "wait" /\ loc[p].result = "true" /\ ~options.DryRun
    /\ Len(calls[p]) = 4
    /\ calls[p][2].op = "Validate" /\ ~calls[p][2].res.Ready
    /\ calls[p][4].op = "Validate" /\ calls[p][4].res.Ready /\ calls[p][4].res.Errors > 0
    /\ dewErrors = EmptyBag

\* ------------------------------------------------------------------ C22
\* The fields of the run state that the step writes.
Written ==
  (IF AppliedObjects' # AppliedObjects THEN {"AppliedObjects"} ELSE {})
  \cup (IF appliedHookObjects' # appliedHookObjects THEN {"appliedHookObjects"} ELSE {})
  \cup (IF deletedObjects' # deletedObjects THEN {"deletedObjects"} ELSE {})
  \cup (IF deletedHookObjects' # deletedHookObjects THEN {"deletedHookObjects"} ELSE {})
  \cup (IF abortSignal' # abortSignal THEN {"abortSignal"} ELSE {})
  \cup (IF deployedNewCRD' # deployedNewCRD THEN {"deployedNewCRD"} ELSE {})

\* No worker writes a field that another worker or the scheduler is about to
\* read without the mutex: the step that reads without the mutex writes
\* nothing, so the writer is another worker, and nothing orders its write
\* before or after that read.
NoUnlockedReadRaces ==
  /\ \A p \in Procs : UnlockedReads(p) \cap Written = {}
  /\ SchedUnlockedReads \cap Written = {}

\* C22 as stated: every field of the shared run state is written only with the
\* mutex held and is read with the mutex held or after all workers have
\* drained; no worker or scheduler step reads a map or flag without the lock
\* while another worker can still write it.
C22_AsStated == [][NoUnlockedReadRaces]_vars

\* ------------------------------------------------------------------ C23
\* Worker p goes from the ApplyObject of a regular object to its readiness wait.
EntersWait(p) == pc[p] # "wait" /\ pc'[p] = "wait"

WaitOnlyAfterCleanApply ==
  \A p \in Workers : EntersWait(p) =>
    /\ errs'[p] = 0
    /\ ~HadError([dewErrors |-> dewErrors'], loc'[p].ref)
    /\ loc'[p].ref \in DOMAIN AppliedObjects'

\* C23 as stated: in applyDeploymentItem the readiness wait of a regular object
\* is entered only when the ApplyObject of that object recorded a result and no
\* error; an object whose apply ended in a recorded error is never polled.
C23_AsStated == [][WaitOnlyAfterCleanApply]_vars

\* ------------------------------------------------------------------ C24
\* Worker p starts a delete of its item's DeleteObjects or one of its hooks.
StartsDeleteOrHook(p) ==
  /\ hist'[p] # hist[p]
  /\ hist'[p][Len(hist'[p])].ph \in {"del", "pre", "post"}

\* The step of p reaches the gateway.
ReachesGateway(p) == calls'[p] # calls[p] /\ calls'[p] # << >>

NoWorkAfterLateEntry ==
  \A p \in Workers :
    (p \in lateEntry \/ (abortSignal /\ pc[p] = "acquire")) =>
      ~StartsDeleteOrHook(p) /\ ~ReachesGateway(p)

\* C24 as stated: once abortSignal is true, a worker that has not yet entered
\* applyDeploymentItem (one dispatched earlier and still waiting for a permit)
\* issues no Delete for the DeleteObjects of its item and runs none of its
\* hooks; only operations of items already being applied reach the gateway.
C24_AsStated == [][NoWorkAfterLateEntry]_vars

====
